---------------------------- MODULE Spec2Model ----------------------------
(***************************************************************************)
(* A model of fluids/design_climate.py: the weather-station registry that  *)
(* is loaded at import time, get_closest_station and gsod_day_parser.      *)
(*                                                                         *)
(* Text is a sequence of one-character strings.  A Python float is kept    *)
(* in fixed point, as a whole number of tenths, so the texts fed to        *)
(* float() carry at most one fractional digit.                             *)
(***************************************************************************)
EXTENDS Integers, Sequences, FiniteSets, TLC

(***************************************************************************)
(* Python values: None, a float (n tenths) or a str (s).                   *)
(***************************************************************************)
None == [t |-> "None", n |-> 0, s |-> <<>>]
Float(x) == [t |-> "float", n |-> x, s |-> <<>>]
Str(txt) == [t |-> "str", n |-> 0, s |-> txt]

\* bool(v) as used by `not v` and `lat and lon`
Truthy(v) ==
    CASE v.t = "None"  -> FALSE
      [] v.t = "float" -> v.n # 0
      [] OTHER         -> v.s # <<>>

(***************************************************************************)
(* float(v) and int(v) on text.  Both strip surrounding whitespace and     *)
(* accept one leading sign; int() wants digits only, float() also accepts  *)
(* one decimal point with a digit on at least one side.                    *)
(***************************************************************************)
Digits == {"0", "1", "2", "3", "4", "5", "6", "7", "8", "9"}
Whitespace == {" ", "\t", "\n"}

DigitVal(c) ==
    CASE c = "0" -> 0 [] c = "1" -> 1 [] c = "2" -> 2 [] c = "3" -> 3
      [] c = "4" -> 4 [] c = "5" -> 5 [] c = "6" -> 6 [] c = "7" -> 7
      [] c = "8" -> 8 [] c = "9" -> 9

RECURSIVE LStripWs(_)
LStripWs(txt) ==
    IF txt # <<>> /\ Head(txt) \in Whitespace THEN LStripWs(Tail(txt)) ELSE txt

RECURSIVE RStripWs(_)
RStripWs(txt) ==
    IF txt # <<>> /\ txt[Len(txt)] \in Whitespace
    THEN RStripWs(SubSeq(txt, 1, Len(txt) - 1))
    ELSE txt

\* str.strip()
Strip(txt) == RStripWs(LStripWs(txt))

Unsigned(txt) == IF txt # <<>> /\ Head(txt) \in {"+", "-"} THEN Tail(txt) ELSE txt
SignOf(txt) == IF txt # <<>> /\ Head(txt) = "-" THEN -1 ELSE 1

RECURSIVE NatOf(_)
NatOf(ds) ==
    IF ds = <<>> THEN 0
    ELSE 10 * NatOf(SubSeq(ds, 1, Len(ds) - 1)) + DigitVal(ds[Len(ds)])

\* int(v) succeeds
IsIntText(txt) ==
    LET u == Unsigned(Strip(txt))
    IN  u # <<>> /\ \A i \in 1..Len(u) : u[i] \in Digits

\* the value of int(v)
IntOf(txt) == SignOf(Strip(txt)) * NatOf(Unsigned(Strip(txt)))

\* float(v) succeeds
IsFloatText(txt) ==
    LET u == Unsigned(Strip(txt))
        dots == {i \in 1..Len(u) : u[i] = "."}
    IN  /\ Cardinality(dots) <= 1
        /\ Len(u) > Cardinality(dots)
        /\ \A i \in (1..Len(u)) \ dots : u[i] \in Digits

\* the value of float(v), in tenths
FloatOf(txt) ==
    LET u == Unsigned(Strip(txt))
        dots == {i \in 1..Len(u) : u[i] = "."}
        d == IF dots = {} THEN Len(u) + 1 ELSE CHOOSE i \in dots : TRUE
        whole == SubSeq(u, 1, d - 1)
        frac == SubSeq(u, d + 1, Len(u))
        tenth == IF frac = <<>> THEN 0 ELSE DigitVal(frac[1])
    IN  SignOf(Strip(txt)) * (10 * NatOf(whole) + tenth)

(***************************************************************************)
(* The registry loader (module level, lines 137-168).                      *)
(***************************************************************************)
TAB == "\t"

\* str.split(sep): the pieces between the separators, empty pieces kept
RECURSIVE Split(_, _)
Split(txt, sep) ==
    LET seps == {i \in 1..Len(txt) : txt[i] = sep}
    IN  IF seps = {} THEN <<txt>>
        ELSE LET i == CHOOSE j \in seps : \A k \in seps : j <= k
             IN  <<SubSeq(txt, 1, i - 1)>> \o Split(SubSeq(txt, i + 1, Len(txt)), sep)

\* the sentinel test of line 155; int(v) is applied to the text v
SentinelHit(v) == IsIntText(v) /\ IntOf(v) = 99999

\* lines 149-158 for one field
ConvertField(v) ==
    IF v = <<>> THEN None
    ELSE IF ~IsFloatText(v) THEN Str(v)
    ELSE IF SentinelHit(v) THEN None
    ELSE Float(FloatOf(v))

\* lines 147-158: the eleven values of a line
ConvertValues(text) ==
    LET texts == Split(text, TAB)
    IN  [i \in 1..11 |-> ConvertField(texts[i])]

\* IntegratedSurfaceDatabaseStation(*values)
IntegratedSurfaceDatabaseStation(vals) ==
    [USAF |-> vals[1], WBAN |-> vals[2], NAME |-> vals[3],
     CTRY |-> vals[4], ST |-> vals[5], ICAO |-> vals[6],
     LAT |-> vals[7], LON |-> vals[8], ELEV |-> vals[9],
     BEGIN |-> vals[10], END |-> vals[11]]

\* a test of the presence of the coordinates
RetainedIfPresent(vals) == vals[7] # None /\ vals[8] # None

\* line 160: `if lat and lon`
Retained(vals) == Truthy(vals[7]) /\ Truthy(vals[8])


(***************************************************************************)
(* The bounded family of dataset lines.  A line is the default station     *)
(* line with one of its eleven fields replaced by a probe text; every line *)
(* ends with the line terminator, as lines read by iterating a file do.    *)
(***************************************************************************)
DefaultFields ==
    <<<<"7", "1", "3", "9">>, <<"9", "9", "9", "9", "9">>, <<"Y", "Y", "C">>, <<"C", "A">>, <<"A", "B">>, <<"C", "Y", "Y", "C">>,
      <<"5", "1", ".", "1">>, <<"-", "1", "1", "4", ".", "0">>, <<"1", "0", "8", "4", ".", "0">>,
      <<"2", "0", "0", "4", "0", "1", "0", "1">>, <<"2", "0", "1", "7", "0", "1", "0", "1">>>>

ProbeTexts ==
    {<<>>, <<"9", "9", "9", "9", "9">>, <<"9", "9", "9", "9", "9", ".", "0">>, <<"9", "9", "9", "9", "9", ".", "5">>,
     <<"0">>, <<"X", "7">>}

RECURSIVE Join(_, _)
Join(fields, sep) ==
    IF Len(fields) = 1 THEN fields[1]
    ELSE fields[1] \o <<sep>> \o Join(Tail(fields), sep)

MakeLine(fields) == Join(fields, TAB) \o <<"\n">>

DatasetLines ==
    {MakeLine([DefaultFields EXCEPT ![i] = txt]) : i \in 1..11, txt \in ProbeTexts}

\* lines 147-158 applied to every line of the family, evaluated once
LineValues == [text \in DatasetLines |-> ConvertValues(text)]


(***************************************************************************)
(* State.                                                                  *)
(*   loadpc, nread        where the module-level loader is, and how many   *)
(*                        dataset lines it has read                        *)
(*   line, values         the loop variables of lines 146-147, which are   *)
(*                        module globals too                               *)
(*   stations, latlongs, station_count, kd_tree                            *)
(*                        the module globals of lines 137-168              *)
(*   py3                  the interpreter: the module runs under Python 2  *)
(*                        and Python 3 (lines 24-27, 39-44)                *)
(*   frames               one get_closest_station activation per caller    *)
(*   parse                the gsod_day_parser call of the moment           *)
(*   fetch                the get_station_year_text call of the moment     *)
(*   fit                  the call of a function of fittings.py of the     *)
(*                        moment                                           *)
(***************************************************************************)
VARIABLES loadpc, nread, line, values, stations, latlongs, station_count,
          kd_tree, py3, frames, parse, fetch, fit

vars == <<loadpc, nread, line, values, stations, latlongs, station_count,
          kd_tree, py3, frames, parse, fetch, fit>>

loader == <<loadpc, nread, line, values>>

registry == <<stations, latlongs, station_count, kd_tree>>

MaxLines == 2

IdleFrame ==
    [pc |-> "idle", latitude |-> 0, longitude |-> 0, minumum_recent_data |-> 0,
     match_max |-> 0, first_match_max |-> 0, calls |-> 0,
     isarray |-> FALSE, indexes |-> <<>>, result |-> 0, error |-> "none"]

NoParse == [pc |-> "idle"]

NoFetch == [pc |-> "idle"]

NoFit == [pc |-> "idle"]

\* lines 159-162: the station list after a line with these values
StationsAfter(sts, vals) ==
    IF Retained(vals)
    THEN Append(sts, IntegratedSurfaceDatabaseStation(vals))
    ELSE sts

\* the coordinate list had every line's pair appended, retained or not
LatlongsUnguarded(rows, vals) == Append(rows, <<vals[7], vals[8]>>)

\* lines 159-163: the coordinate list after a line with these values
LatlongsAfter(rows, vals) ==
    IF Retained(vals) THEN Append(rows, <<vals[7], vals[8]>>) ELSE rows

\* One iteration of the loop of line 146.
ReadLine(text) ==
    /\ loadpc = "reading"
    /\ nread < MaxLines
    /\ nread' = nread + 1
    /\ line' = text
    /\ values' = LineValues[text]
    /\ stations' = StationsAfter(stations, LineValues[text])
    /\ latlongs' = LatlongsAfter(latlongs, LineValues[text])
    /\ UNCHANGED <<loadpc, station_count, kd_tree, py3, frames, parse, fetch, fit>>

\* np.array(_latlongs) builds a float array only from numbers, and cKDTree
\* wants a non-empty two-dimensional float array
ArrayOk(rows) ==
    /\ rows # <<>>
    /\ \A i \in 1..Len(rows) : rows[i][1].t = "float" /\ rows[i][2].t = "float"

\* np.array(_latlongs): one numeric row per tuple
NpArray(rows) == [i \in 1..Len(rows) |-> <<rows[i][1].n, rows[i][2].n>>]

\* Lines 164-168, at the end of the file: the import fails when the index
\* cannot be built.
BuildIndex ==
    /\ loadpc = "reading"
    /\ station_count' = Len(stations)
    /\ IF ArrayOk(latlongs)
       THEN /\ latlongs' = NpArray(latlongs)
            /\ kd_tree' = NpArray(latlongs)
            /\ loadpc' = "loaded"
       ELSE /\ loadpc' = "failed"
            /\ UNCHANGED <<latlongs, kd_tree>>
    /\ UNCHANGED <<nread, line, values, stations, py3, frames, parse, fetch, fit>>

InitLoad ==
    /\ loadpc = "reading"
    /\ nread = 0
    /\ line = <<>>
    /\ values = <<>>
    /\ stations = <<>>
    /\ latlongs = <<>>
    /\ station_count = 0
    /\ kd_tree = <<>>
    /\ py3 \in BOOLEAN
    /\ frames = <<IdleFrame>>
    /\ parse = NoParse
    /\ fetch = NoFetch
    /\ fit = NoFit

NextLoad ==
    \/ \E text \in DatasetLines : ReadLine(text)
    \/ BuildIndex

SpecLoad == InitLoad /\ [][NextLoad]_vars


(***************************************************************************)
(* get_closest_station (lines 171-226).                                    *)
(***************************************************************************)
Min(a, b) == IF a < b THEN a ELSE b

\* squared planar distance of row i of the indexed array to the query point
Dist2(i, lat, lon) ==
    (kd_tree[i][1] - lat) * (kd_tree[i][1] - lat)
    + (kd_tree[i][2] - lon) * (kd_tree[i][2] - lon)

\* the rows of `rest` at the least of the distances d
Nearest(rest, d) == {i \in rest : \A j \in rest : d[i] <= d[j]}

\* The orders in which the k nearest of the rows `rest` can come back: the
\* nearest first, and among equidistant rows the order is the index's own,
\* so every order of them is an outcome.
RECURSIVE NearestOrders(_, _, _)
NearestOrders(rest, k, d) ==
    IF k = 0 \/ rest = {} THEN {<<>>}
    ELSE UNION {{<<pick[1]>> \o tl : tl \in NearestOrders(pick[2], k - 1, d)} :
                pick \in {<<i, rest \ {i}>> : i \in Nearest(rest, d)}}

\* kd_tree.query([latitude, longitude], k) for k >= 2: the indexes of the k
\* nearest rows, in ascending distance
KdQuery(lat, lon, k) ==
    UNION {NearestOrders(DOMAIN d, k, d) :
           d \in {[i \in 1..Len(kd_tree) |-> Dist2(i, lat, lon)]}}

\* `enddate > minumum_recent_data` (line 221).  Python 2 orders None below
\* and str above every number; Python 3 raises TypeError for both.
Greater(enddate, bound) ==
    CASE enddate.t = "float" -> IF enddate.n > 10 * bound THEN "True" ELSE "False"
      [] enddate.t = "None"  -> IF py3 THEN "TypeError" ELSE "False"
      [] OTHER               -> IF py3 THEN "TypeError" ELSE "True"

\* The loop of lines 217-222 over the remaining indexes: the index returned,
\* -1 when the comparison raises, 0 when the loop ends without a return.
RECURSIVE ScanIndexes(_, _)
ScanIndexes(indexes, bound) ==
    IF indexes = <<>> THEN 0
    ELSE LET c == Greater(stations[Head(indexes)].END, bound)
         IN  IF c = "True" THEN Head(indexes)
             ELSE IF c = "TypeError" THEN -1
             ELSE ScanIndexes(Tail(indexes), bound)

\* a retry that only doubled match_max
WidenByTwo(match_max) == match_max * 2

\* a retry condition that asked for a positive match_max
MayWidenPositive(match_max) == 0 < match_max /\ match_max < station_count

\* the factor of the retry of line 224
Widen(match_max) == match_max * 10

\* line 223
MayWiden(match_max) == match_max < station_count

\* A caller enters get_closest_station.
Call(c, lat, lon, bound, mm) ==
    /\ loadpc = "loaded"
    /\ frames[c].pc = "idle"
    /\ frames' = [frames EXCEPT ![c] =
                    [IdleFrame EXCEPT !.pc = "query", !.latitude = lat,
                                      !.longitude = lon,
                                      !.minumum_recent_data = bound,
                                      !.match_max = mm, !.first_match_max = mm]]
    /\ UNCHANGED <<loader, registry, py3, parse, fetch, fit>>

\* a query that kept only the rows it asked for in the shared coordinate array
QueryInPlace(c) ==
    /\ frames[c].pc = "query"
    /\ LET k == Min(frames[c].match_max, station_count)
       IN  /\ \E order \in KdQuery(frames[c].latitude, frames[c].longitude, k) :
                  frames' = [frames EXCEPT ![c].pc = "scan",
                                           ![c].isarray = (k # 1),
                                           ![c].indexes = order]
           /\ latlongs' = SubSeq(latlongs, 1, k)
    /\ UNCHANGED <<loader, stations, station_count, kd_tree, py3, parse, fetch, fit>>

\* Line 215.  With k = 1 the index returns a scalar, not an array (scipy
\* squeezes the last dimension of the result when k == 1).  With k = 0
\* nothing is asked for: the index returns an empty array or, depending on
\* the scipy at hand, rejects the request with a ValueError.
Query(c) ==
    /\ frames[c].pc = "query"
    /\ LET k == Min(frames[c].match_max, station_count)
       IN  \/ \E order \in KdQuery(frames[c].latitude, frames[c].longitude, k) :
                  frames' = [frames EXCEPT ![c].pc = "scan",
                                           ![c].isarray = (k # 1),
                                           ![c].indexes = order]
           \/ /\ k = 0
              /\ frames' = [frames EXCEPT ![c].pc = "raised",
                                          ![c].error = "ValueError"]
    /\ UNCHANGED <<loader, registry, py3, parse, fetch, fit>>

\* the depth of recursion at which the interpreter gives up
\* (sys.getrecursionlimit(), 1000 by default)
RecursionLimit == 4

\* Lines 217-226: the scan, then the retry or the failure.  Iterating over
\* a scalar raises TypeError; a retry beyond the interpreter's depth of
\* recursion raises RecursionError (a RuntimeError).
Scan(c) ==
    /\ frames[c].pc = "scan"
    /\ LET f == frames[c]
           hit == ScanIndexes(f.indexes, f.minumum_recent_data)
       IN  frames' = [frames EXCEPT ![c] =
               IF ~f.isarray \/ hit = -1
               THEN [f EXCEPT !.pc = "raised", !.error = "TypeError"]
               ELSE IF hit > 0
               THEN [f EXCEPT !.pc = "returned", !.result = hit]
               ELSE IF MayWiden(f.match_max) /\ f.calls + 1 >= RecursionLimit
               THEN [f EXCEPT !.pc = "raised", !.error = "RecursionError"]
               ELSE IF MayWiden(f.match_max)
               THEN [f EXCEPT !.pc = "query", !.match_max = Widen(f.match_max),
                              !.calls = f.calls + 1,
                              !.isarray = FALSE, !.indexes = <<>>]
               ELSE [f EXCEPT !.pc = "raised", !.error = "NotFound"]]
    /\ UNCHANGED <<loader, registry, py3, parse, fetch, fit>>

\* The caller takes the result or the exception; the activation is gone.
Collect(c) ==
    /\ frames[c].pc \in {"returned", "raised"}
    /\ frames' = [frames EXCEPT ![c] = IdleFrame]
    /\ UNCHANGED <<loader, registry, py3, parse, fetch, fit>>

(***************************************************************************)
(* The registries the queries run on: what the loader leaves behind for a  *)
(* dataset of n stations in a row, one degree apart.  Every station ended  *)
(* its record in 2010, except at most one that runs to 2016 and at most    *)
(* one, the first or the last, whose END field is the text "99999" or is   *)
(* empty.                                                                  *)
(***************************************************************************)
MaxStations == 21

DigitChar(k) == CHOOSE ch \in Digits : DigitVal(ch) = k

\* str(n) for n >= 0
RECURSIVE DigitsOf(_)
DigitsOf(k) ==
    IF k < 10 THEN <<DigitChar(k)>>
    ELSE DigitsOf(k \div 10) \o <<DigitChar(k % 10)>>

OldEndText == <<"2", "0", "1", "0", "0", "1", "0", "1">>
RecentEndText == <<"2", "0", "1", "6", "0", "1", "0", "1">>
OddEndTexts == {<<"9", "9", "9", "9", "9">>, <<>>}
EndTexts == {OldEndText, RecentEndText} \cup OddEndTexts

\* the dataset line of the station at latitude lat, longitude 1.0
RowLine(lat, endtext) ==
    MakeLine([DefaultFields EXCEPT ![7] = DigitsOf(lat) \o <<".", "0">>,
                                   ![8] = <<"1", ".", "0">>,
                                   ![11] = endtext])

\* lines 147-158 applied to every line of the rows, evaluated once
RowValues ==
    [lat \in 1..MaxStations, endtext \in EndTexts |->
        ConvertValues(RowLine(lat, endtext))]

\* the end text of each line of a row of n stations
RowEnds(n, recent, odd, oddtext) ==
    [i \in 1..n |-> IF i = odd THEN oddtext
                    ELSE IF i = recent THEN RecentEndText ELSE OldEndText]

RowDatasets(nmax) ==
    UNION {{RowEnds(n, recent, odd, oddtext) :
                recent \in 0..n, odd \in {0, 1, n}, oddtext \in OddEndTexts} :
           n \in 1..nmax}

\* lines 146-163 over the first k lines of a row
RECURSIVE RowStations(_, _)
RowStations(ends, k) ==
    IF k = 0 THEN <<>>
    ELSE StationsAfter(RowStations(ends, k - 1), RowValues[k, ends[k]])

RECURSIVE RowLatlongs(_, _)
RowLatlongs(ends, k) ==
    IF k = 0 THEN <<>>
    ELSE LatlongsAfter(RowLatlongs(ends, k - 1), RowValues[k, ends[k]])

\* the state lines 137-168 leave for a row
Loaded(ends) ==
    /\ loadpc = "loaded"
    /\ nread = Len(ends)
    /\ line = RowLine(Len(ends), ends[Len(ends)])
    /\ values = RowValues[Len(ends), ends[Len(ends)]]
    /\ stations = RowStations(ends, Len(ends))
    /\ latlongs = NpArray(RowLatlongs(ends, Len(ends)))
    /\ station_count = Len(RowStations(ends, Len(ends)))
    /\ kd_tree = NpArray(RowLatlongs(ends, Len(ends)))

QueryLats == {0, 20}
QueryLons == {10}
QueryBounds == {0, 20140000, 99999999}
QueryBreadths == {1, 2, 100}

Init ==
    /\ \E ends \in RowDatasets(MaxStations) : Loaded(ends)
    /\ py3 \in BOOLEAN
    /\ frames = <<IdleFrame>>
    /\ parse = NoParse
    /\ fetch = NoFetch
    /\ fit = NoFit

Next ==
    \E c \in DOMAIN frames :
        \/ \E lat \in QueryLats, lon \in QueryLons,
              bound \in QueryBounds, mm \in QueryBreadths :
                Call(c, lat, lon, bound, mm)
        \/ Query(c)
        \/ Scan(c)
        \/ Collect(c)

Spec == Init /\ [][Next]_vars

\* The sizes of registry on which the widening is followed to its end: no
\* retry, one retry and two retries for the breadths of QueryBreadths.
RetrySizes == {1, 2, 11, MaxStations}

InitRetry ==
    /\ \E ends \in {e \in RowDatasets(MaxStations) : Len(e) \in RetrySizes} :
            Loaded(ends)
    /\ py3 \in BOOLEAN
    /\ frames = <<IdleFrame>>
    /\ parse = NoParse
    /\ fetch = NoFetch
    /\ fit = NoFit

\* a thread that is running get_closest_station keeps running: the call
\* does not wait for anything
FairSpec ==
    InitRetry /\ [][Next]_vars /\ \A c \in {1} : WF_vars(Query(c) \/ Scan(c))

\* The calls that ask for no station at all, next to calls that ask for two.
ZeroBreadths == {0, 2}

NextZero ==
    \E c \in DOMAIN frames :
        \/ \E lat \in QueryLats, lon \in QueryLons,
              bound \in QueryBounds, mm \in ZeroBreadths :
                Call(c, lat, lon, bound, mm)
        \/ Query(c)
        \/ Scan(c)
        \/ Collect(c)

SpecZero == InitRetry /\ [][NextZero]_vars

(***************************************************************************)
(* get_closest_station as a function: the outcomes of one call run from    *)
(* start to end, <<index of the station returned, "none">> or              *)
(* <<0, exception>>.                                                       *)
(***************************************************************************)
RECURSIVE get_closest_station(_, _, _, _)
get_closest_station(latitude, longitude, minumum_recent_data, match_max) ==
    LET k == Min(match_max, station_count)
    IN  IF k = 1 THEN {<<0, "TypeError">>}
        ELSE UNION {
            IF ScanIndexes(order, minumum_recent_data) = -1 THEN {<<0, "TypeError">>}
            ELSE IF ScanIndexes(order, minumum_recent_data) > 0
            THEN {<<ScanIndexes(order, minumum_recent_data), "none">>}
            ELSE IF MayWiden(match_max)
            THEN get_closest_station(latitude, longitude, minumum_recent_data,
                                     Widen(match_max))
            ELSE {<<0, "NotFound">>} :
            order \in KdQuery(latitude, longitude, k)}


(***************************************************************************)
(* gsod_day_parser (lines 265-388).  Its values carry a denominator: a     *)
(* float is the exact ratio n/d, an int has d = 1, a datetime keeps its    *)
(* YYYYMMDD number and a bool is 0 or 1.                                   *)
(***************************************************************************)
PNone == [t |-> "None", n |-> 0, d |-> 1, s |-> <<>>]
PStr(txt) == [t |-> "str", n |-> 0, d |-> 1, s |-> txt]
PFloat(num, den) == [t |-> "float", n |-> num, d |-> den, s |-> <<>>]
PInt(x) == [t |-> "int", n |-> x, d |-> 1, s |-> <<>>]
PDatetime(x) == [t |-> "datetime", n |-> x, d |-> 1, s |-> <<>>]
PBool(b) == [t |-> "bool", n |-> IF b THEN 1 ELSE 0, d |-> 1, s |-> <<>>]
\* in place of a value: the exception that computing it raises
PRaise(exc) == [t |-> exc, n |-> 0, d |-> 1, s |-> <<>>]

gsod_fields ==
    <<"DATE", "TEMP", "TEMP_COUNT", "DEWP", "DEWP_COUNT", "SLP", "SLP_COUNT",
      "STP", "STP_COUNT", "VISIB", "VISIB_COUNT", "WDSP", "WDSP_COUNT",
      "MXSPD", "GUST", "MAX", "MIN", "PRCP", "SNDP", "FRSHTT">>

gsod_float_fields ==
    <<"TEMP", "DEWP", "SLP", "STP", "VISIB", "WDSP", "MXSPD", "GUST", "MAX",
      "MIN", "PRCP", "SNDP">>

gsod_int_fields ==
    <<"TEMP_COUNT", "DEWP_COUNT", "SLP_COUNT", "STP_COUNT", "VISIB_COUNT",
      "WDSP_COUNT">>

gsod_flag_chars == {"*", "A", "B", "C", "D", "E", "F", "G", "H", "I"}

gsod_bad_values == {<<"9", "9", ".", "9", "9">>, <<"9", "9", "9", ".", "9">>, <<"9", "9", "9", "9", ".", "9">>}

gsod_indicator_names == <<"fog", "rain", "snow_ice", "hail", "thunder", "tornado">>

\* str.split() without a separator: the runs of non-whitespace
RECURSIVE SplitWs(_)
SplitWs(txt) ==
    LET u == LStripWs(txt)
        ws == {i \in 1..Len(u) : u[i] \in Whitespace}
        e == IF ws = {} THEN Len(u) + 1 ELSE CHOOSE i \in ws : \A j \in ws : i <= j
    IN  IF u = <<>> THEN <<>>
        ELSE <<SubSeq(u, 1, e - 1)>> \o SplitWs(SubSeq(u, e, Len(u)))

\* str.rstrip(gsod_flag_chars)
RECURSIVE RStripFlags(_)
RStripFlags(txt) ==
    IF txt # <<>> /\ txt[Len(txt)] \in gsod_flag_chars
    THEN RStripFlags(SubSeq(txt, 1, Len(txt) - 1))
    ELSE txt

RECURSIVE Pow10(_)
Pow10(k) == IF k = 0 THEN 1 ELSE 10 * Pow10(k - 1)

\* the value of float(v) as a ratio: the digits over a power of ten
RatioOf(txt) ==
    LET u == Unsigned(Strip(txt))
        dots == {i \in 1..Len(u) : u[i] = "."}
        dot == IF dots = {} THEN Len(u) + 1 ELSE CHOOSE i \in dots : TRUE
        whole == SubSeq(u, 1, dot - 1)
        frac == SubSeq(u, dot + 1, Len(u))
    IN  PFloat(SignOf(Strip(txt)) * NatOf(whole \o frac), Pow10(Len(frac)))

\* lines 330-336: the tokens after the two identifiers, a blank one as None
Fields(text) ==
    LET tokens == SplitWs(Strip(text))
    IN  [i \in 1..(IF Len(tokens) > 2 THEN Len(tokens) - 2 ELSE 0) |->
            IF Strip(tokens[i + 2]) = <<>> THEN PNone ELSE PStr(Strip(tokens[i + 2]))]

\* dict(zip(gsod_fields, fields)): as many keys as the shorter of the two
ZipFields(fields) ==
    [name \in {gsod_fields[i] : i \in 1..Min(Len(gsod_fields), Len(fields))} |->
        fields[CHOOSE i \in 1..Len(gsod_fields) : gsod_fields[i] = name]]

DaysIn(year, month) ==
    IF month = 2
    THEN (IF year % 4 = 0 /\ (year % 100 # 0 \/ year % 400 = 0) THEN 29 ELSE 28)
    ELSE IF month \in {4, 6, 9, 11} THEN 30 ELSE 31

\* strptime(yymmdd, '%Y%m%d') succeeds, for a text of eight characters or
\* one that is not all digits
IsDateText(txt) ==
    /\ Len(txt) = 8
    /\ \A i \in 1..8 : txt[i] \in Digits
    /\ NatOf(SubSeq(txt, 5, 6)) \in 1..12
    /\ NatOf(SubSeq(txt, 7, 8)) \in 1..DaysIn(NatOf(SubSeq(txt, 1, 4)), NatOf(SubSeq(txt, 5, 6)))

\* the missing-value test made on the token with its flags still on
FloatFieldFlagged(obj, field) ==
    IF field \notin DOMAIN obj THEN PRaise("KeyError")
    ELSE IF obj[field].t = "None" THEN PRaise("AttributeError")
    ELSE IF obj[field].s \in gsod_bad_values THEN PNone
    ELSE IF IsFloatText(RStripFlags(obj[field].s)) THEN RatioOf(RStripFlags(obj[field].s))
    ELSE PRaise("ValueError")

\* lines 344-350 for one field: the value, or the exception raised
FloatField(obj, field) ==
    IF field \notin DOMAIN obj THEN PRaise("KeyError")
    ELSE IF obj[field].t = "None" THEN PRaise("AttributeError")
    ELSE LET value == RStripFlags(obj[field].s)
         IN  IF value \in gsod_bad_values THEN PNone
             ELSE IF IsFloatText(value) THEN RatioOf(value)
             ELSE PRaise("ValueError")

\* lines 380-383 for one field
IntField(obj, field) ==
    IF field \notin DOMAIN obj THEN PRaise("KeyError")
    ELSE IF obj[field].t = "None" THEN PNone
    ELSE IF IsIntText(obj[field].s) THEN PInt(IntOf(obj[field].s))
    ELSE PRaise("ValueError")

Errors == {"KeyError", "AttributeError", "ValueError", "TypeError"}

\* the exception of the first field of the loop that raises one, or "none"
FirstError(names, results) ==
    LET bad == {i \in 1..Len(names) : results[names[i]].t \in Errors}
    IN  IF bad = {} THEN "none"
        ELSE results[names[CHOOSE i \in bad : \A j \in bad : i <= j]].t

\* v * num / den, skipped for None
Scaled(v, num, den) ==
    IF v.t = "None" THEN v ELSE PFloat(v.n * num, v.d * den)

\* (value + 459.67)*five_ninths, skipped for None
Kelvin(v) ==
    IF v.t = "None" THEN v ELSE PFloat((v.n * 100 + 45967 * v.d) * 5, v.d * 100 * 9)

\* lines 352-377; mile = 1609.344, inch = 0.0254, knot = 1852/3600
ConvertSI(field, v) ==
    CASE field \in {"TEMP", "DEWP", "MAX", "MIN"} -> Kelvin(v)
      [] field = "VISIB"                         -> Scaled(v, 201168, 125)
      [] field \in {"PRCP", "SNDP"}              -> Scaled(v, 127, 5000)
      [] field \in {"WDSP", "MXSPD", "GUST"}     -> Scaled(v, 463, 900)
      [] field \in {"SLP", "STP"}                -> Scaled(v, 100, 1)
      [] OTHER                                   -> v

Range(seq) == {seq[i] : i \in 1..Len(seq)}

Raised(text, SI, dt, err) ==
    [pc |-> "raised", line |-> text, SI |-> SI, datetime |-> dt,
     error |-> err, obj |-> <<>>]

Returned(text, SI, dt, obj) ==
    [pc |-> "returned", line |-> text, SI |-> SI, datetime |-> dt,
     error |-> "none", obj |-> obj]

\* gsod_day_parser(text, SI, datetime): the record returned or the
\* exception raised
gsod_day_parser(text, SI, dt) ==
    LET obj0 == ZipFields(Fields(text))
        dateErr == IF ~dt THEN "none"
                   ELSE IF "DATE" \notin DOMAIN obj0 THEN "KeyError"
                   ELSE IF obj0["DATE"].t = "None" \/ IsDateText(obj0["DATE"].s)
                        THEN "none"
                   ELSE "ValueError"
        date == IF dt /\ obj0["DATE"].t = "str"
                THEN PDatetime(NatOf(obj0["DATE"].s))
                ELSE obj0["DATE"]
        floats == [f \in Range(gsod_float_fields) |-> FloatField(obj0, f)]
        floatErr == FirstError(gsod_float_fields, floats)
        ints == [f \in Range(gsod_int_fields) |-> IntField(obj0, f)]
        intErr == FirstError(gsod_int_fields, ints)
        flags == obj0["FRSHTT"].s
        indicators == [name \in {gsod_indicator_names[i] :
                                    i \in 1..Min(Len(gsod_indicator_names), Len(flags))} |->
                          PBool(flags[CHOOSE i \in 1..Len(gsod_indicator_names) :
                                          gsod_indicator_names[i] = name] = "1")]
        obj == [name \in DOMAIN obj0 \cup DOMAIN indicators |->
                   IF name \in DOMAIN indicators THEN indicators[name]
                   ELSE IF name = "DATE" THEN date
                   ELSE IF name \in Range(gsod_float_fields)
                   THEN (IF SI THEN ConvertSI(name, floats[name]) ELSE floats[name])
                   ELSE IF name \in Range(gsod_int_fields) THEN ints[name]
                   ELSE obj0[name]]
    IN  IF dateErr # "none" THEN Raised(text, SI, dt, dateErr)
        ELSE IF floatErr # "none" THEN Raised(text, SI, dt, floatErr)
        ELSE IF intErr # "none" THEN Raised(text, SI, dt, intErr)
        ELSE IF "FRSHTT" \notin DOMAIN obj0 THEN Raised(text, SI, dt, "KeyError")
        ELSE IF obj0["FRSHTT"].t = "None" THEN Raised(text, SI, dt, "TypeError")
        ELSE Returned(text, SI, dt, obj)


(***************************************************************************)
(* The lines the parser is run on: the default observation line with one   *)
(* of its twenty fields replaced by a probe token, and the default line    *)
(* cut after its first tokens or followed by one more.                     *)
(***************************************************************************)
DefaultTokens ==
    <<<<"7", "2", "2", "8", "6", "0">>, <<"2", "3", "1", "1", "9">>, <<"2", "0", "1", "7", "0", "1", "0", "1">>,
      <<"5", "0", ".", "0">>, <<"2", "4">>, <<"4", "0", ".", "1">>, <<"2", "4">>,
      <<"1", "0", "1", "5", ".", "2">>, <<"2", "4">>, <<"9", "6", "0", ".", "1">>, <<"2", "4">>,
      <<"1", "0", ".", "0">>, <<"2", "4">>, <<"5", ".", "2">>, <<"2", "4">>,
      <<"1", "2", ".", "0">>, <<"1", "8", ".", "1">>, <<"6", "0", ".", "1", "*">>, <<"4", "2", ".", "1">>,
      <<"0", ".", "0", "0", "G">>, <<"9", "9", "9", ".", "9">>, <<"0", "1", "0", "0", "0", "0">>>>

FloatProbes ==
    {<<"9", "9", ".", "9", "9">>, <<"9", "9", "9", ".", "9">>, <<"9", "9", "9", "9", ".", "9">>,
     <<"9", "9", "9", "9", ".", "9", "*">>, <<"9", "9", ".", "9", "9", "A", "B">>, <<"9", "9", ".", "9">>,
     <<"0", ".", "0">>, <<"3", "5", ".", "5">>, <<"X">>, <<"I">>}

DateProbes == {<<"2", "0", "1", "6", "0", "2", "2", "9">>, <<"2", "0", "1", "7", "1", "3", "0", "1">>}
CountProbes == {<<"4">>, <<"2", ".", "5">>}
FlagProbes == {<<"1", "1", "1", "1", "1", "1">>, <<"0", "1">>}

FieldAt(name) == CHOOSE i \in 1..Len(gsod_fields) : gsod_fields[i] = name

ProbeLine(name, token) ==
    Join([DefaultTokens EXCEPT ![FieldAt(name) + 2] = token], " ") \o <<"\n">>

CutLine(ntokens) ==
    IF ntokens = 0 THEN <<"\n">>
    ELSE Join(SubSeq(DefaultTokens \o <<<<"0">>>>, 1, ntokens), " ") \o <<"\n">>

ParserLines ==
    {ProbeLine(f, tok) : f \in Range(gsod_float_fields), tok \in FloatProbes}
    \cup {ProbeLine("DATE", tok) : tok \in DateProbes}
    \cup {ProbeLine(f, tok) : f \in Range(gsod_int_fields), tok \in CountProbes}
    \cup {ProbeLine("FRSHTT", tok) : tok \in FlagProbes}
    \cup {CutLine(k) : k \in 0..(Len(DefaultTokens) + 1)}

\* A call of gsod_day_parser, from its arguments to its outcome.
ParseCall(text, SI, dt) ==
    /\ parse.pc = "idle"
    /\ parse' = gsod_day_parser(text, SI, dt)
    /\ UNCHANGED <<loader, registry, py3, frames, fetch, fit>>

\* The caller takes the record or the exception.
ParseCollect ==
    /\ parse.pc \in {"returned", "raised"}
    /\ parse' = NoParse
    /\ UNCHANGED <<loader, registry, py3, frames, fetch, fit>>

InitParse ==
    /\ loadpc = "reading"
    /\ nread = 0
    /\ line = <<>>
    /\ values = <<>>
    /\ stations = <<>>
    /\ latlongs = <<>>
    /\ station_count = 0
    /\ kd_tree = <<>>
    /\ py3 \in BOOLEAN
    /\ frames = <<IdleFrame>>
    /\ parse = NoParse
    /\ fetch = NoFetch
    /\ fit = NoFit

NextParse ==
    \/ \E text \in ParserLines, SI \in BOOLEAN, dt \in BOOLEAN : ParseCall(text, SI, dt)
    \/ ParseCollect

SpecParse == InitParse /\ [][NextParse]_vars

(***************************************************************************)
(* Two callers at once, over the registries of at most ConcStations        *)
(* stations, with gsod_day_parser calls in between.                        *)
(***************************************************************************)
ConcStations == 3

ConcBounds == {20140000, 99999999}
ConcBreadths == {2}
ConcLines == {CutLine(3), ProbeLine("VISIB", <<"9", "9", "9", ".", "9">>)}

InitConc ==
    /\ \E ends \in RowDatasets(ConcStations) : Loaded(ends)
    /\ py3 \in BOOLEAN
    /\ frames = <<IdleFrame, IdleFrame>>
    /\ parse = NoParse
    /\ fetch = NoFetch
    /\ fit = NoFit

NextConc ==
    \/ \E c \in DOMAIN frames :
          \/ \E bound \in ConcBounds, mm \in ConcBreadths : Call(c, 20, 10, bound, mm)
          \/ Query(c)
          \/ Scan(c)
          \/ Collect(c)
    \/ \E text \in ConcLines, SI \in BOOLEAN : ParseCall(text, SI, TRUE)
    \/ ParseCollect

SpecConc == InitConc /\ [][NextConc]_vars

(***************************************************************************)
(* get_station_year_text (lines 230-261).  The network is the environment: *)
(* it decides how urlopen ends and how reading the response ends, and what *)
(* the bytes read are.                                                     *)
(***************************************************************************)
\* the guidance of the message of lines 251-254
FetchGuidance ==
    "Could not obtain desired data; check if the year has data published for the specified station and the station was specified in the correct form. The full error is "

\* how urlopen(toget, timeout=5) can end (line 249)
OpenOutcomes == {"ok", "URLError: unreachable host", "socket.timeout",
                 "URLError: ftp error: 550 no such file"}

\* how data.read() can end (line 256)
ReadOutcomes == {"ok", "socket.timeout", "ConnectionResetError"}

\* what the bytes read are: f.read() of line 260 raises on bytes that are no
\* gzip stream
Payloads == {"gzip", "not gzip"}

FetchStations == {"722860-23119", "712650-99999", "010010-99999"}
FetchYears == {1999, 2016, 2017}

\* lines 246-247: the path is the concatenation of these parts
TogetOf(station, year) ==
    <<"ftp://ftp.ncdc.noaa.gov/pub/data/gsod/", year, "/", station, "-", year,
      ".op.gz">>

FetchFrame(station, year) ==
    [pc |-> "open", station |-> station, year |-> year,
     toget |-> TogetOf(station, year), payload |-> "none", stage |-> "open",
     error |-> "none", message |-> <<>>]

\* A caller enters get_station_year_text (lines 246-247).
FetchCall(station, year) ==
    /\ fetch.pc = "idle"
    /\ fetch' = FetchFrame(station, year)
    /\ UNCHANGED <<loader, registry, py3, frames, parse, fit>>

\* Lines 248-254: urlopen inside the try; every exception of it is raised
\* again as an Exception whose message ends with the text of the cause.
FetchOpen(outcome) ==
    /\ fetch.pc = "open"
    /\ fetch' = IF outcome = "ok"
                THEN [fetch EXCEPT !.pc = "read", !.stage = "read"]
                ELSE [fetch EXCEPT !.pc = "raised", !.error = "Exception",
                                   !.message = <<FetchGuidance, outcome>>]
    /\ UNCHANGED <<loader, registry, py3, frames, parse, fit>>

\* Lines 256-257: data.read() and StringIO(data), outside the try.
FetchRead(outcome, payload) ==
    /\ fetch.pc = "read"
    /\ fetch' = IF outcome = "ok"
                THEN [fetch EXCEPT !.pc = "unzip", !.stage = "unzip",
                                   !.payload = payload]
                ELSE [fetch EXCEPT !.pc = "raised", !.error = outcome,
                                   !.message = <<outcome>>]
    /\ UNCHANGED <<loader, registry, py3, frames, parse, fit>>

\* Lines 259-261: the gzip stream is read to its end and returned.
FetchUnzip ==
    /\ fetch.pc = "unzip"
    /\ fetch' = IF fetch.payload = "gzip"
                THEN [fetch EXCEPT !.pc = "returned"]
                ELSE [fetch EXCEPT !.pc = "raised", !.error = "OSError",
                                   !.message = <<"Not a gzipped file">>]
    /\ UNCHANGED <<loader, registry, py3, frames, parse, fit>>

\* The caller takes the text or the exception.
FetchCollect ==
    /\ fetch.pc \in {"returned", "raised"}
    /\ fetch' = NoFetch
    /\ UNCHANGED <<loader, registry, py3, frames, parse, fit>>

InitFetch ==
    /\ Loaded(RowEnds(1, 1, 0, <<>>))
    /\ py3 \in BOOLEAN
    /\ frames = <<IdleFrame>>
    /\ parse = NoParse
    /\ fetch = NoFetch
    /\ fit = NoFit

NextFetch ==
    \/ \E station \in FetchStations, year \in FetchYears : FetchCall(station, year)
    \/ \E outcome \in OpenOutcomes : FetchOpen(outcome)
    \/ \E outcome \in ReadOutcomes, payload \in Payloads : FetchRead(outcome, payload)
    \/ FetchUnzip
    \/ FetchCollect

SpecFetch == InitFetch /\ [][NextFetch]_vars

(***************************************************************************)
(* fittings.py.  A number is the exact ratio n/d in lowest terms, d > 0;   *)
(* the inputs are chosen so that every operation on them is exact.         *)
(***************************************************************************)
RECURSIVE GCD(_, _)
GCD(a, b) == IF b = 0 THEN a ELSE GCD(b, a % b)

Abs(x) == IF x < 0 THEN -x ELSE x

\* Python values of fittings.py: None, a number, a text
FNone == [t |-> "None", n |-> 0, s |-> "", d |-> 1]
FStr(txt) == [t |-> "str", n |-> 0, s |-> txt, d |-> 1]
FNum(num, den) ==
    [t |-> "num",
     n |-> (IF den < 0 THEN -num ELSE num) \div GCD(Abs(num), Abs(den)),
     s |-> "",
     d |-> Abs(den) \div GCD(Abs(num), Abs(den))]
FInt(x) == FNum(x, 1)

QAdd(a, b) == FNum(a.n * b.d + b.n * a.d, a.d * b.d)
QSub(a, b) == FNum(a.n * b.d - b.n * a.d, a.d * b.d)
QMul(a, b) == FNum(a.n * b.n, a.d * b.d)
QDiv(a, b) == FNum(a.n * b.d, a.d * b.n)
QLt(a, b) == a.n * b.d < b.n * a.d
QLe(a, b) == a.n * b.d <= b.n * a.d

\* `if x`: None, zero and the empty text are false
FTruthy(v) ==
    CASE v.t = "None" -> FALSE
      [] v.t = "num"  -> v.n # 0
      [] OTHER        -> v.s # ""

\* how a call ends: with a value, or with an exception
FReturn(v) == [exc |-> "none", value |-> v, kind |-> "return", msg |-> ""]
FRaise(exc, msg) == [exc |-> exc, value |-> FNone, kind |-> "raise", msg |-> msg]

(***************************************************************************)
(* Darby 3K and Hooper 2K (lines 1484-1692).                               *)
(***************************************************************************)
\* one entry of Darby: K1, Ki in thousandths, Kd in tenths
DarbyRow(K1, Ki, Kd) ==
    [K1 |-> FInt(K1), Ki |-> FNum(Ki, 1000), Kd |-> FNum(Kd, 10)]

DarbyElbows ==
    "Elbow, 90°, threaded, standard, (r/D = 1)" :> DarbyRow(800, 140, 40)
    @@ "Elbow, 90°, threaded, long radius, (r/D = 1.5)" :> DarbyRow(800, 71, 42)
    @@ "Elbow, 90°, flanged, welded, bends, (r/D = 1)" :> DarbyRow(800, 91, 40)
    @@ "Elbow, 90°, (r/D = 2)" :> DarbyRow(800, 56, 39)
    @@ "Elbow, 90°, (r/D = 4)" :> DarbyRow(800, 66, 39)
    @@ "Elbow, 90°, (r/D = 6)" :> DarbyRow(800, 75, 42)
    @@ "Elbow, 90°, mitered, 1 weld, (90°)" :> DarbyRow(1000, 270, 40)
    @@ "Elbow, 90°, 2 welds, (45°)" :> DarbyRow(800, 68, 41)
    @@ "Elbow, 90°, 3 welds, (30°)" :> DarbyRow(800, 35, 42)
    @@ "Elbow, 45°, threaded standard, (r/D = 1)" :> DarbyRow(500, 71, 42)
    @@ "Elbow, 45°, long radius, (r/D = 1.5)" :> DarbyRow(500, 52, 40)
    @@ "Elbow, 45°, mitered, 1 weld, (45°)" :> DarbyRow(500, 86, 40)
    @@ "Elbow, 45°, mitered, 2 welds, (22.5°)" :> DarbyRow(500, 52, 40)
    @@ "Elbow, 180°, threaded, close-return bend, (r/D = 1)" :> DarbyRow(1000, 230, 40)
    @@ "Elbow, 180°, flanged, (r/D = 1)" :> DarbyRow(1000, 120, 40)
    @@ "Elbow, 180°, all, (r/D = 1.5)" :> DarbyRow(1000, 100, 40)

DarbyTees ==
    "Tee, Through-branch, (as elbow), threaded, (r/D = 1)" :> DarbyRow(500, 274, 40)
    @@ "Tee, Through-branch,(as elbow), (r/D = 1.5)" :> DarbyRow(800, 140, 40)
    @@ "Tee, Through-branch, (as elbow), flanged, (r/D = 1)" :> DarbyRow(800, 280, 40)
    @@ "Tee, Through-branch, (as elbow), stub-in branch" :> DarbyRow(1000, 340, 40)
    @@ "Tee, Run-through, threaded, (r/D = 1)" :> DarbyRow(200, 91, 40)
    @@ "Tee, Run-through, flanged, (r/D = 1)" :> DarbyRow(150, 50, 40)
    @@ "Tee, Run-through, stub-in branch" :> DarbyRow(100, 0, 0)

DarbyValves ==
    "Valve, Angle valve, 45°, full line size, β = 1" :> DarbyRow(950, 250, 40)
    @@ "Valve, Angle valve, 90°, full line size, β = 1" :> DarbyRow(1000, 690, 40)
    @@ "Valve, Globe valve, standard, β = 1" :> DarbyRow(1500, 1700, 36)
    @@ "Valve, Plug valve, branch flow" :> DarbyRow(500, 410, 40)
    @@ "Valve, Plug valve, straight through" :> DarbyRow(300, 84, 39)
    @@ "Valve, Plug valve, three-way (flow through)" :> DarbyRow(300, 140, 40)
    @@ "Valve, Gate valve, standard, β = 1" :> DarbyRow(300, 37, 39)
    @@ "Valve, Ball valve, standard, β = 1" :> DarbyRow(300, 17, 35)
    @@ "Valve, Diaphragm, dam type" :> DarbyRow(1000, 690, 49)
    @@ "Valve, Swing check" :> DarbyRow(1500, 460, 40)
    @@ "Valve, Lift check" :> DarbyRow(2000, 2850, 38)

\* the table without its valves
DarbyFittingsOnly == DarbyElbows @@ DarbyTees

\* the table as the assignments of the module leave it
Darby == DarbyElbows @@ DarbyTees @@ DarbyValves

\* one entry of Hooper: K1, Kinfty in hundredths
HooperRow(K1, Kinfty) == [K1 |-> FInt(K1), Kinfty |-> FNum(Kinfty, 100)]

HooperElbows ==
    "Elbow, 90°, Standard (R/D = 1), Screwed" :> HooperRow(800, 40)
    @@ "Elbow, 90°, Standard (R/D = 1), Flanged/welded" :> HooperRow(800, 25)
    @@ "Elbow, 90°, Long-radius (R/D = 1.5), All types" :> HooperRow(800, 20)
    @@ "Elbow, 90°, Mitered (R/D = 1.5), 1 weld (90° angle)" :> HooperRow(1000, 115)
    @@ "Elbow, 90°, Mitered (R/D = 1.5), 2 weld (45° angle)" :> HooperRow(800, 35)
    @@ "Elbow, 90°, Mitered (R/D = 1.5), 3 weld (30° angle)" :> HooperRow(800, 30)
    @@ "Elbow, 90°, Mitered (R/D = 1.5), 4 weld (22.5° angle)" :> HooperRow(800, 27)
    @@ "Elbow, 90°, Mitered (R/D = 1.5), 5 weld (18° angle)" :> HooperRow(800, 25)
    @@ "Elbow, 45°, Standard (R/D = 1), All types" :> HooperRow(500, 20)
    @@ "Elbow, 45°, Long-radius (R/D 1.5), All types" :> HooperRow(500, 15)
    @@ "Elbow, 45°, Mitered (R/D=1.5), 1 weld (45° angle)" :> HooperRow(500, 25)
    @@ "Elbow, 45°, Mitered (R/D=1.5), 2 weld (22.5° angle)" :> HooperRow(500, 15)
    @@ "Elbow, 45°, Standard (R/D = 1), Screwed" :> HooperRow(1000, 70)
    @@ "Elbow, 180°, Standard (R/D = 1), Flanged/welded" :> HooperRow(1000, 35)
    @@ "Elbow, 180°, Long-radius (R/D = 1.5), All types" :> HooperRow(1000, 30)
    @@ "Elbow, Used as, Standard, Screwed" :> HooperRow(500, 70)
    @@ "Elbow, Elbow, Long-radius, Screwed" :> HooperRow(800, 40)
    @@ "Elbow, Elbow, Standard, Flanged/welded" :> HooperRow(800, 80)
    @@ "Elbow, Elbow, Stub-in type branch" :> HooperRow(1000, 100)

HooperTees ==
    "Tee, Run, Screwed" :> HooperRow(200, 10)
    @@ "Tee, Through, Flanged or welded" :> HooperRow(150, 5)
    @@ "Tee, Tee, Stub-in type branch" :> HooperRow(100, 0)

HooperValves ==
    "Valve, Gate, Full line size, Beta = 1" :> HooperRow(300, 10)
    @@ "Valve, Ball, Reduced trim, Beta = 0.9" :> HooperRow(500, 15)
    @@ "Valve, Plug, Reduced trim, Beta = 0.8" :> HooperRow(1000, 25)
    @@ "Valve, Globe, Standard" :> HooperRow(1500, 400)
    @@ "Valve, Globe, Angle or Y-type" :> HooperRow(1000, 200)
    @@ "Valve, Diaphragm, Dam type" :> HooperRow(1000, 200)
    @@ "Valve, Butterfly," :> HooperRow(800, 25)
    @@ "Valve, Check, Lift" :> HooperRow(2000, 1000)
    @@ "Valve, Check, Swing" :> HooperRow(1500, 150)
    @@ "Valve, Check, Tilting-disc" :> HooperRow(1000, 50)

\* the table without its valves
HooperFittingsOnly == HooperElbows @@ HooperTees

\* the table as the assignments of the module leave it
Hooper == HooperElbows @@ HooperTees @@ HooperValves

\* NPS**0.3 for the pipe sizes of the calls: 1**0.3 = 1 and 1024**0.3 = 8
PowThreeTenths(NPS) == IF NPS = FInt(1024) THEN FInt(8) ELSE FInt(1)

\* line 1585
Darby3KFormula(NPS, Re, K1, Ki, Kd) ==
    QAdd(QDiv(K1, Re), QMul(Ki, QAdd(FInt(1), QDiv(Kd, PowThreeTenths(NPS)))))

\* a name that is not in the table is passed over when the constants are given
Darby3KLenient(NPS, Re, name, K1, Ki, Kd) ==
    IF FTruthy(name) /\ name.s \in DOMAIN Darby
    THEN FReturn(Darby3KFormula(NPS, Re, Darby[name.s].K1, Darby[name.s].Ki,
                                Darby[name.s].Kd))
    ELSE IF FTruthy(K1) /\ FTruthy(Ki) /\ FTruthy(Kd)
    THEN FReturn(Darby3KFormula(NPS, Re, K1, Ki, Kd))
    ELSE FRaise("Exception", "Name of fitting or constants are required")

\* lines 1575-1585
Darby3K(NPS, Re, name, K1, Ki, Kd) ==
    IF FTruthy(name)
    THEN IF name.s \in DOMAIN Darby
         THEN FReturn(Darby3KFormula(NPS, Re, Darby[name.s].K1, Darby[name.s].Ki,
                                     Darby[name.s].Kd))
         ELSE FRaise("Exception", "Name of fitting not in list")
    ELSE IF FTruthy(K1) /\ FTruthy(Ki) /\ FTruthy(Kd)
    THEN FReturn(Darby3KFormula(NPS, Re, K1, Ki, Kd))
    ELSE FRaise("Exception", "Name of fitting or constants are required")

\* line 1692
Hooper2KFormula(Di, Re, K1, Kinfty) ==
    QAdd(QDiv(K1, Re), QMul(Kinfty, QAdd(FInt(1), QDiv(FInt(1), Di))))

\* lines 1679-1692
Hooper2K(Di, Re, name, K1, Kinfty) ==
    IF FTruthy(name)
    THEN IF name.s \in DOMAIN Hooper
         THEN FReturn(Hooper2KFormula(Di, Re, Hooper[name.s].K1,
                                      Hooper[name.s].Kinfty))
         ELSE FRaise("Exception", "Name of fitting not in list")
    ELSE IF FTruthy(K1) /\ FTruthy(Kinfty)
    THEN FReturn(Hooper2KFormula(Di, Re, K1, Kinfty))
    ELSE FRaise("Exception", "Name of fitting or constants are required")

\* the names a caller passes: none, the empty text, the names of the table
\* and two names that are not in it
DarbyNameArgs ==
    {FNone, FStr(""), FStr("Valve, Gate"), FStr("Pipe, straight")}
    \cup {FStr(name) : name \in DOMAIN Darby}

\* the constants a caller passes: none, some, or the three of a table entry
DarbyConstantArgs ==
    {<<FNone, FNone, FNone>>, <<FInt(950), FNone, FNone>>,
     <<FInt(950), FNum(25, 100), FNone>>, <<FNone, FNum(25, 100), FInt(4)>>}
    \cup {<<Darby[name].K1, Darby[name].Ki, Darby[name].Kd>> : name \in DOMAIN Darby}

NPSArgs == {FInt(1), FInt(1024)}
ReArgs == {FInt(100), FInt(1000)}

\* the calls: by name, alone or with constants too, and without a name
DarbyCalls ==
    (DarbyNameArgs
        \X {k \in DarbyConstantArgs : FNone \in {k[1], k[2], k[3]} \/ k[2] = FNum(25, 100)})
    \cup ({FNone, FStr("")} \X DarbyConstantArgs)

\* A call of Darby3K, from entry to return or raise.
CallDarby3K(NPS, Re, name, K1, Ki, Kd) ==
    /\ fit.pc = "idle"
    /\ fit' = [pc |-> "done", fn |-> "Darby3K",
               args |-> [NPS |-> NPS, Re |-> Re, name |-> name,
                         K1 |-> K1, Ki |-> Ki, Kd |-> Kd],
               out |-> Darby3K(NPS, Re, name, K1, Ki, Kd),
               after |-> [NPS |-> NPS, Re |-> Re, name |-> name,
                          K1 |-> K1, Ki |-> Ki, Kd |-> Kd]]
    /\ UNCHANGED <<loader, registry, py3, frames, parse, fetch>>

HooperNameArgs ==
    {FNone, FStr(""), FStr("Valve, Gate"), FStr("Pipe, straight")}
    \cup {FStr(name) : name \in DOMAIN Hooper}

HooperConstantArgs ==
    {<<FNone, FNone>>, <<FInt(800), FNone>>, <<FNone, FNum(25, 100)>>}
    \cup {<<Hooper[name].K1, Hooper[name].Kinfty>> : name \in DOMAIN Hooper}

DiArgs == {FInt(1), FInt(2)}

HooperCalls ==
    (HooperNameArgs
        \X {k \in HooperConstantArgs : FNone \in {k[1], k[2]} \/ k[2] = FNum(25, 100)})
    \cup ({FNone, FStr("")} \X HooperConstantArgs)

\* A call of Hooper2K, from entry to return or raise.
CallHooper2K(Di, Re, name, K1, Kinfty) ==
    /\ fit.pc = "idle"
    /\ fit' = [pc |-> "done", fn |-> "Hooper2K",
               args |-> [Di |-> Di, Re |-> Re, name |-> name,
                         K1 |-> K1, Kinfty |-> Kinfty],
               out |-> Hooper2K(Di, Re, name, K1, Kinfty),
               after |-> [Di |-> Di, Re |-> Re, name |-> name,
                          K1 |-> K1, Kinfty |-> Kinfty]]
    /\ UNCHANGED <<loader, registry, py3, frames, parse, fetch>>

(***************************************************************************)
(* Crane valve coefficients (lines 1957-2766).  A function that divides    *)
(* D1 by D2 raises ZeroDivisionError for D2 = 0, as Python numbers do.     *)
(***************************************************************************)
FSquare(x) == QMul(x, x)
FFourth(x) == FSquare(FSquare(x))

\* sin(radians(angle)/2) and its square root for the angles of the calls:
\* sin(0) = 0 and sin(pi/2) = 1
SinHalf(angle) == IF angle = FInt(180) THEN FInt(1) ELSE FInt(0)
SqrtSinHalf(angle) == IF angle = FInt(180) THEN FInt(1) ELSE FInt(0)

\* radians(angle) <= pi/4
UpToEighthTurn(angle) == QLe(angle, FInt(45))

\* 1 - beta**2
OneLessSquare(beta) == QSub(FInt(1), FSquare(beta))

\* lines 2029 and 2532
LowAngleForm(K1, beta, angle) ==
    QDiv(QAdd(K1, QMul(SinHalf(angle),
                       QAdd(QMul(FNum(8, 10), OneLessSquare(beta)),
                            QMul(FNum(26, 10), FSquare(OneLessSquare(beta)))))),
         FFourth(beta))

\* lines 2031, 2534 and 2766
HighAngleForm(K1, beta, angle) ==
    QDiv(QAdd(QAdd(K1, QMul(QMul(FNum(1, 2), SqrtSinHalf(angle)),
                            OneLessSquare(beta))),
              FSquare(OneLessSquare(beta))),
         FFourth(beta))

\* lines 2085 and 2148
GlobeForm(K1, beta) ==
    QDiv(QAdd(K1, QMul(beta,
                       QAdd(QMul(FNum(1, 2), FSquare(QSub(FInt(1), beta))),
                            FSquare(OneLessSquare(beta))))),
         FFourth(beta))

\* lines 2250, 2256, 2402 and 2468
LiftForm(K1, beta) ==
    QDiv(QAdd(K1, QMul(beta,
                       QAdd(QMul(FNum(1, 2), OneLessSquare(beta)),
                            FSquare(OneLessSquare(beta))))),
         FFourth(beta))

\* lines 2022-2032
K_gate_valve_Crane(D1, D2, angle, fd) ==
    IF D2.n = 0 THEN FRaise("ZeroDivisionError", "division by zero")
    ELSE LET beta == QDiv(D1, D2)
             K1 == QMul(FInt(8), fd)
         IN  IF beta = FInt(1) \/ angle = FInt(0) THEN FReturn(K1)
             ELSE IF UpToEighthTurn(angle)
             THEN FReturn(LowAngleForm(K1, beta, angle))
             ELSE FReturn(HighAngleForm(K1, beta, angle))

\* lines 2080-2085
K_globe_valve_Crane(D1, D2, fd) ==
    IF D2.n = 0 THEN FRaise("ZeroDivisionError", "division by zero")
    ELSE LET beta == QDiv(D1, D2)
             K1 == QMul(FInt(340), fd)
         IN  IF beta = FInt(1) THEN FReturn(K1) ELSE FReturn(GlobeForm(K1, beta))

\* lines 2138-2148
K_angle_valve_Crane(D1, D2, fd, style) ==
    IF D2.n = 0 THEN FRaise("ZeroDivisionError", "division by zero")
    ELSE IF style \notin {0, 1, 2}
    THEN FRaise("Exception", "Valve style should be 0, 1, or 2")
    ELSE LET beta == QDiv(D1, D2)
             K1 == IF style = 0 \/ style = 2 THEN QMul(FInt(55), fd)
                   ELSE QMul(FInt(150), fd)
         IN  IF beta = FInt(1) THEN FReturn(K1) ELSE FReturn(GlobeForm(K1, beta))

\* lines 2244-2256
K_lift_check_valve_Crane(D1, D2, fd, angled) ==
    IF D2.n = 0 THEN FRaise("ZeroDivisionError", "division by zero")
    ELSE LET beta == QDiv(D1, D2)
             K1 == IF angled THEN QMul(FInt(55), fd) ELSE QMul(FInt(600), fd)
         IN  IF beta = FInt(1) THEN FReturn(K1) ELSE FReturn(LiftForm(K1, beta))

\* the KeyError of a style that is no key of coeffs
StyleError(msg) == FRaise("KeyError", msg)

\* lines 2393-2402
K_globe_stop_check_valve_Crane(D1, D2, fd, style) ==
    LET coeffs == (0 :> 400 @@ 1 :> 300 @@ 2 :> 55)
    IN  IF style \notin DOMAIN coeffs
        THEN StyleError("Accepted valve styles are 0, 1, and 2 only")
        ELSE IF D2.n = 0 THEN FRaise("ZeroDivisionError", "division by zero")
        ELSE LET K == QMul(FInt(coeffs[style]), fd)
                 beta == QDiv(D1, D2)
             IN  IF beta = FInt(1) THEN FReturn(K) ELSE FReturn(LiftForm(K, beta))

\* lines 2458-2468
K_angle_stop_check_valve_Crane(D1, D2, fd, style) ==
    LET coeffs == (0 :> 200 @@ 1 :> 350 @@ 2 :> 55)
    IN  IF style \notin DOMAIN coeffs
        THEN StyleError("Accepted valve styles are 0, 1, and 2 only")
        ELSE IF D2.n = 0 THEN FRaise("ZeroDivisionError", "division by zero")
        ELSE LET K == QMul(FInt(coeffs[style]), fd)
                 beta == QDiv(D1, D2)
             IN  IF beta = FInt(1) THEN FReturn(K) ELSE FReturn(LiftForm(K, beta))

\* the ball valve computed with the gate valve's body
K_ball_valve_CraneAsGate(D1, D2, angle, fd) == K_gate_valve_Crane(D1, D2, angle, fd)

\* lines 2525-2534
K_ball_valve_Crane(D1, D2, angle, fd) ==
    IF D2.n = 0 THEN FRaise("ZeroDivisionError", "division by zero")
    ELSE LET beta == QDiv(D1, D2)
             K1 == QMul(FInt(3), fd)
         IN  IF beta = FInt(1) THEN FReturn(K1)
             ELSE IF UpToEighthTurn(angle)
             THEN FReturn(LowAngleForm(K1, beta, angle))
             ELSE FReturn(HighAngleForm(K1, beta, angle))

\* a style that is no key falls back to the weir type
K_diaphragm_valve_CraneDefault(fd, style) ==
    LET coeffs == (0 :> 149 @@ 1 :> 39)
    IN  IF style \notin DOMAIN coeffs THEN FReturn(QMul(FInt(149), fd))
        ELSE FReturn(QMul(FInt(coeffs[style]), fd))

\* lines 2575-2580
K_diaphragm_valve_Crane(fd, style) ==
    LET coeffs == (0 :> 149 @@ 1 :> 39)
    IN  IF style \notin DOMAIN coeffs
        THEN StyleError("Accepted valve styles are 0 (weir) or 1 (straight through) only")
        ELSE FReturn(QMul(FInt(coeffs[style]), fd))

\* lines 2622-2627
K_foot_valve_Crane(fd, style) ==
    LET coeffs == (0 :> 420 @@ 1 :> 75)
    IN  IF style \notin DOMAIN coeffs
        THEN StyleError("Accepted valve styles are 0 (poppet disk) or 1 (hinged disk) only")
        ELSE FReturn(QMul(FInt(coeffs[style]), fd))

\* line 2684
ButterflyCoeffs == (0 :> <<45, 35, 25>> @@ 1 :> <<74, 52, 43>> @@ 2 :> <<218, 96, 55>>)

\* the size tiers with their upper bounds left out
K_butterfly_valve_CraneStrict(D, fd, style) ==
    IF style \notin DOMAIN ButterflyCoeffs
    THEN StyleError("Accepted valve styles are 0 (centric), 1 (double offset), or 2 (triple offset) only.")
    ELSE IF QLt(D, FNum(2286, 10000))
    THEN FReturn(QMul(FInt(ButterflyCoeffs[style][1]), fd))
    ELSE IF QLt(D, FNum(381, 1000))
    THEN FReturn(QMul(FInt(ButterflyCoeffs[style][2]), fd))
    ELSE FReturn(QMul(FInt(ButterflyCoeffs[style][3]), fd))

\* lines 2684-2697
K_butterfly_valve_Crane(D, fd, style) ==
    IF style \notin DOMAIN ButterflyCoeffs
    THEN StyleError("Accepted valve styles are 0 (centric), 1 (double offset), or 2 (triple offset) only.")
    ELSE IF QLe(D, FNum(2286, 10000))
    THEN FReturn(QMul(FInt(ButterflyCoeffs[style][1]), fd))
    ELSE IF QLe(D, FNum(381, 1000))
    THEN FReturn(QMul(FInt(ButterflyCoeffs[style][2]), fd))
    ELSE FReturn(QMul(FInt(ButterflyCoeffs[style][3]), fd))

\* lines 2756-2766
K_plug_valve_Crane(D1, D2, angle, fd, style) ==
    LET coeffs == (0 :> 18 @@ 1 :> 30 @@ 2 :> 90)
    IN  IF D2.n = 0 THEN FRaise("ZeroDivisionError", "division by zero")
        ELSE IF style \notin DOMAIN coeffs
        THEN StyleError("Accepted valve styles are 0 (straight-through), 1 (3-way, flow straight-through), or 2 (3-way, flow 90°)")
        ELSE LET beta == QDiv(D1, D2)
                 K == QMul(FInt(coeffs[style]), fd)
             IN  IF beta = FInt(1) THEN FReturn(K)
                 ELSE FReturn(HighAngleForm(K, beta, angle))

\* the arguments of the valve calls
D1Args == {FNum(1, 2), FInt(1)}
D2Args == {FInt(0), FInt(1)}
ValveAngleArgs == {FInt(0), FInt(180)}
FdArgs == {FNum(16, 1000), FNum(2, 100)}
StyleArgs == {-1, 0, 1, 2, 3}
BoreArgs == {FNum(1, 10), FNum(2286, 10000), FNum(2287, 10000), FNum(381, 1000),
             FNum(382, 1000), FInt(1)}

\* A call of a function that leaves its arguments alone ended with `out`.
\* The caller holds the guard, so that the arguments and the outcome are
\* computed when the call is taken.
ValveCall(fn, args, out) ==
    /\ fit' = [pc |-> "done", fn |-> fn, args |-> args, out |-> out, after |-> args]
    /\ UNCHANGED <<loader, registry, py3, frames, parse, fetch>>

CallK_gate_valve_Crane(D1, D2, angle, fd) ==
    /\ fit.pc = "idle"
    /\ ValveCall("K_gate_valve_Crane",
                 [D1 |-> D1, D2 |-> D2, angle |-> angle, fd |-> fd],
                 K_gate_valve_Crane(D1, D2, angle, fd))

CallK_globe_valve_Crane(D1, D2, fd) ==
    /\ fit.pc = "idle"
    /\ ValveCall("K_globe_valve_Crane", [D1 |-> D1, D2 |-> D2, fd |-> fd],
                 K_globe_valve_Crane(D1, D2, fd))

CallK_angle_valve_Crane(D1, D2, fd, style) ==
    /\ fit.pc = "idle"
    /\ ValveCall("K_angle_valve_Crane",
                 [D1 |-> D1, D2 |-> D2, fd |-> fd, style |-> style],
                 K_angle_valve_Crane(D1, D2, fd, style))

CallK_lift_check_valve_Crane(D1, D2, fd, angled) ==
    /\ fit.pc = "idle"
    /\ ValveCall("K_lift_check_valve_Crane",
                 [D1 |-> D1, D2 |-> D2, fd |-> fd, angled |-> angled],
                 K_lift_check_valve_Crane(D1, D2, fd, angled))

CallK_globe_stop_check_valve_Crane(D1, D2, fd, style) ==
    /\ fit.pc = "idle"
    /\ ValveCall("K_globe_stop_check_valve_Crane",
                 [D1 |-> D1, D2 |-> D2, fd |-> fd, style |-> style],
                 K_globe_stop_check_valve_Crane(D1, D2, fd, style))

CallK_angle_stop_check_valve_Crane(D1, D2, fd, style) ==
    /\ fit.pc = "idle"
    /\ ValveCall("K_angle_stop_check_valve_Crane",
                 [D1 |-> D1, D2 |-> D2, fd |-> fd, style |-> style],
                 K_angle_stop_check_valve_Crane(D1, D2, fd, style))

CallK_ball_valve_Crane(D1, D2, angle, fd) ==
    /\ fit.pc = "idle"
    /\ ValveCall("K_ball_valve_Crane",
                 [D1 |-> D1, D2 |-> D2, angle |-> angle, fd |-> fd],
                 K_ball_valve_Crane(D1, D2, angle, fd))

CallK_diaphragm_valve_Crane(fd, style) ==
    /\ fit.pc = "idle"
    /\ ValveCall("K_diaphragm_valve_Crane", [fd |-> fd, style |-> style],
                 K_diaphragm_valve_Crane(fd, style))

CallK_foot_valve_Crane(fd, style) ==
    /\ fit.pc = "idle"
    /\ ValveCall("K_foot_valve_Crane", [fd |-> fd, style |-> style],
                 K_foot_valve_Crane(fd, style))

CallK_butterfly_valve_Crane(D, fd, style) ==
    /\ fit.pc = "idle"
    /\ ValveCall("K_butterfly_valve_Crane", [D |-> D, fd |-> fd, style |-> style],
                 K_butterfly_valve_Crane(D, fd, style))

CallK_plug_valve_Crane(D1, D2, angle, fd, style) ==
    /\ fit.pc = "idle"
    /\ ValveCall("K_plug_valve_Crane",
                 [D1 |-> D1, D2 |-> D2, angle |-> angle, fd |-> fd, style |-> style],
                 K_plug_valve_Crane(D1, D2, angle, fd, style))

\* The caller takes the value or the exception.
FitCollect ==
    /\ fit.pc = "done"
    /\ fit' = NoFit
    /\ UNCHANGED <<loader, registry, py3, frames, parse, fetch>>

(***************************************************************************)
(* Conical diffusers (lines 1229-1374).  An angle is either the number of  *)
(* degrees the caller gave, or 2*atan(x) in degrees for the x computed     *)
(* from the length.  The five formulas are irrational, so a coefficient is *)
(* the formula's number with the values it is computed from.               *)
(***************************************************************************)
GivenAngle(angle) == [v |-> angle, given |-> TRUE]
\* line 1303
AngleOfLength(Di1, Di2, l) ==
    [v |-> QDiv(QDiv(QSub(Di2, Di1), FInt(2)), l), given |-> FALSE]

\* tan of half of 0, 20 and 60 degrees, to six places
TanHalf(deg) ==
    CASE deg = 0  -> FInt(0)
      [] deg = 20 -> FNum(176327, 1000000)
      [] deg = 60 -> FNum(577350, 1000000)

\* deg < angle and angle <= deg; 2*atan(x) is below 180 degrees for every x
AngleAbove(A, deg) ==
    IF A.given THEN QLt(FInt(deg), A.v)
    ELSE deg < 180 /\ QLt(TanHalf(deg), A.v)
AngleUpTo(A, deg) ==
    IF A.given THEN QLe(A.v, FInt(deg))
    ELSE deg = 180 \/ QLe(A.v, TanHalf(deg))

\* the value of formula `regime` (lines 1309, 1311, 1314, 1316, 1318)
Coefficient(regime, beta, A, fd) ==
    [t |-> "K", angle |-> A, beta |-> beta, fd |-> fd, regime |-> regime]

\* fd*(1-beta**4)/8./sin(angle_rad/2) of the first three formulas
WithFriction(regime, beta, A, fd) ==
    IF fd.t = "None"
    THEN FRaise("TypeError", "unsupported operand type(s) for *: 'NoneType' and 'float'")
    ELSE FReturn(Coefficient(regime, beta, A, fd))

\* the regimes with the bounds closed below and open above
DiffuserRegimeHalfOpen(beta, A, fd) ==
    LET from(deg) == ~AngleUpTo(A, deg) \/ (A.given /\ A.v = FInt(deg))
        below(deg) == ~AngleAbove(A, deg) /\ ~(A.given /\ A.v = FInt(deg))
    IN  IF from(0) /\ below(20)
        THEN WithFriction(1, beta, A, fd)
        ELSE IF from(20) /\ below(60) /\ QLe(FInt(0), beta) /\ QLt(beta, FNum(1, 2))
        THEN WithFriction(2, beta, A, fd)
        ELSE IF from(20) /\ below(60) /\ QLe(FNum(1, 2), beta)
        THEN WithFriction(3, beta, A, fd)
        ELSE IF from(60) /\ below(180) /\ QLe(FInt(0), beta) /\ QLt(beta, FNum(1, 2))
        THEN FReturn(Coefficient(4, beta, A, FNone))
        ELSE IF from(60) /\ below(180) /\ QLe(FNum(1, 2), beta)
        THEN FReturn(Coefficient(5, beta, A, FNone))
        ELSE FRaise("Exception", "Conical diffuser inputs incorrect")

\* lines 1308-1321
DiffuserRegime(beta, A, fd) ==
    IF AngleAbove(A, 0) /\ AngleUpTo(A, 20)
    THEN WithFriction(1, beta, A, fd)
    ELSE IF AngleAbove(A, 20) /\ AngleUpTo(A, 60)
            /\ QLe(FInt(0), beta) /\ QLt(beta, FNum(1, 2))
    THEN WithFriction(2, beta, A, fd)
    ELSE IF AngleAbove(A, 20) /\ AngleUpTo(A, 60) /\ QLe(FNum(1, 2), beta)
    THEN WithFriction(3, beta, A, fd)
    ELSE IF AngleAbove(A, 60) /\ AngleUpTo(A, 180)
            /\ QLe(FInt(0), beta) /\ QLt(beta, FNum(1, 2))
    THEN FReturn(Coefficient(4, beta, A, FNone))
    ELSE IF AngleAbove(A, 60) /\ AngleUpTo(A, 180) /\ QLe(FNum(1, 2), beta)
    THEN FReturn(Coefficient(5, beta, A, FNone))
    ELSE FRaise("Exception", "Conical diffuser inputs incorrect")

\* lines 1298-1322; the message of line 1306 without its quotation marks
diffuser_conical(Di1, Di2, l, angle, fd) ==
    IF Di2.n = 0 THEN FRaise("ZeroDivisionError", "division by zero")
    ELSE IF angle.t # "None"
    THEN IF angle.n = 0 THEN FRaise("ZeroDivisionError", "float division by zero")
         ELSE DiffuserRegime(QDiv(Di1, Di2), GivenAngle(angle), fd)
    ELSE IF l.t # "None"
    THEN IF l.n = 0 THEN FRaise("ZeroDivisionError", "float division by zero")
         ELSE DiffuserRegime(QDiv(Di1, Di2), AngleOfLength(Di1, Di2, l), fd)
    ELSE FRaise("Exception", "Either l or angle must be specified")

\* K += v, from K = 0
KAdd(K, v) ==
    IF K.t = "num" /\ K.n = 0 THEN v ELSE [t |-> "sum", left |-> K, right |-> v]

\* lines 1372-1374, from the i-th length on
RECURSIVE StagedLoop(_, _, _, _, _)
StagedLoop(DEs, ls, fd, i, K) ==
    IF i > Len(ls) THEN FReturn(K)
    ELSE IF i + 1 > Len(DEs) THEN FRaise("IndexError", "list index out of range")
    ELSE LET seg == diffuser_conical(DEs[i], DEs[i + 1], ls[i], FNone, fd)
         IN  IF seg.kind = "raise" THEN seg
             ELSE StagedLoop(DEs, ls, fd, i + 1, KAdd(K, seg.value))

\* only the outlet diameter added
StagedDiametersAppended(Di1, Di2, DEs) == DEs \o <<Di2>>

\* lines 1370-1371: DEs after insert(0, Di1) and append(Di2)
StagedDiameters(Di1, Di2, DEs) == <<Di1>> \o DEs \o <<Di2>>

\* the inlet diameter left out of the list
diffuser_conical_stagedNoInlet(Di1, Di2, DEs, ls, fd) ==
    StagedLoop(DEs \o <<Di2>>, ls, fd, 1, FInt(0))

\* lines 1369-1374
diffuser_conical_staged(Di1, Di2, DEs, ls, fd) ==
    StagedLoop(StagedDiameters(Di1, Di2, DEs), ls, fd, 1, FInt(0))

DiffuserDi1Args == {FInt(-1), FInt(1), FInt(2)}
DiffuserDi2Args == {FInt(0), FInt(2), FInt(4)}
DiffuserAngleArgs ==
    {FNone, FInt(-10), FInt(0), FInt(20), FInt(21), FInt(60), FInt(61),
     FInt(180), FInt(181)}
LengthArgs == {FNone, FInt(-1), FInt(0), FInt(1), FInt(4)}
DiffuserFdArgs == {FNone, FNum(2, 100)}
StagedDEs == {<<>>, <<FInt(1)>>, <<FInt(2)>>, <<FInt(2), FInt(3)>>}
StagedLengths ==
    UNION {[1..n -> {FInt(1), FInt(4)}] : n \in 0..3}
StagedDi1Args == {FInt(0), FInt(1)}
StagedDi2Args == {FInt(4)}

\* the calls a caller makes with one list DEs
MaxCalls == 3

Calldiffuser_conical(Di1, Di2, l, angle, fd) ==
    /\ fit.pc = "idle"
    /\ ValveCall("diffuser_conical",
                 [Di1 |-> Di1, Di2 |-> Di2, l |-> l, angle |-> angle, fd |-> fd],
                 diffuser_conical(Di1, Di2, l, angle, fd))

\* the caller's list DEs is the one the function lengthens (lines 1370-1371):
\* `after` is what the caller's arguments hold when the call has ended,
\* `first` what the list held before the first call and how that call ended
StagedCall(args, calls, first) ==
    [pc |-> "done", fn |-> "diffuser_conical_staged",
     args |-> args,
     out |-> diffuser_conical_staged(args.Di1, args.Di2, args.DEs, args.ls, args.fd),
     after |-> [args EXCEPT !.DEs = StagedDiameters(args.Di1, args.Di2, args.DEs)],
     calls |-> calls,
     first |-> first]

Calldiffuser_conical_staged(Di1, Di2, DEs, ls, fd) ==
    /\ fit.pc = "idle"
    /\ fit' = StagedCall([Di1 |-> Di1, Di2 |-> Di2, DEs |-> DEs, ls |-> ls, fd |-> fd],
                         1, [DEs |-> DEs,
                             out |-> diffuser_conical_staged(Di1, Di2, DEs, ls, fd)])
    /\ UNCHANGED <<loader, registry, py3, frames, parse, fetch>>

\* the caller calls once more with a new list of the first content
RecallWithCopy ==
    /\ fit.pc = "done"
    /\ fit.fn = "diffuser_conical_staged"
    /\ fit.calls < MaxCalls
    /\ fit' = StagedCall([fit.args EXCEPT !.DEs = fit.first.DEs], fit.calls + 1, fit.first)
    /\ UNCHANGED <<loader, registry, py3, frames, parse, fetch>>

\* the caller calls once more with the same arguments, the same list included
Recalldiffuser_conical_staged ==
    /\ fit.pc = "done"
    /\ fit.fn = "diffuser_conical_staged"
    /\ fit.calls < MaxCalls
    /\ fit' = StagedCall(fit.after, fit.calls + 1, fit.first)
    /\ UNCHANGED <<loader, registry, py3, frames, parse, fetch>>

(***************************************************************************)
(* Converging tee, branch side (lines 2886-2987).                          *)
(***************************************************************************)
\* lines 2886-2887
branch_converging_Crane_Fs == <<FNum(174, 100), FNum(141, 100), FInt(1), FInt(0)>>
branch_converging_Crane_angles == <<FInt(30), FInt(45), FInt(60), FInt(90)>>

\* the line through the points j and j + 1 of the table, at x
OnSegment(x, xp, fp, j) ==
    QAdd(QMul(QDiv(QSub(fp[j + 1], fp[j]), QSub(xp[j + 1], xp[j])), QSub(x, xp[j])),
         fp[j])

\* the table continued along its first and last segment
InterpExtrapolated(x, xp, fp) ==
    IF QLt(x, xp[1]) THEN OnSegment(x, xp, fp, 1)
    ELSE IF QLe(xp[Len(xp)], x) THEN OnSegment(x, xp, fp, Len(xp) - 1)
    ELSE LET j == CHOOSE i \in 1..(Len(xp) - 1) : QLe(xp[i], x) /\ QLt(x, xp[i + 1])
         IN  OnSegment(x, xp, fp, j)

\* np.interp(x, xp, fp) with its default left and right values (line 2985):
\* fp[0] below the table, fp[-1] above it
Interp(x, xp, fp) ==
    IF QLe(x, xp[1]) THEN fp[1]
    ELSE IF QLe(xp[Len(xp)], x) THEN fp[Len(fp)]
    ELSE LET j == CHOOSE i \in 1..(Len(xp) - 1) : QLe(xp[i], x) /\ QLt(x, xp[i + 1])
         IN  OnSegment(x, xp, fp, j)

\* lines 2974-2984 and 2986-2987, with the factor F of line 2985
BranchConverging(D_run, D_branch, Q_run, Q_branch, F) ==
    IF D_run.n = 0 THEN FRaise("ZeroDivisionError", "division by zero")
    ELSE LET beta == QDiv(D_branch, D_run)
             beta2 == QMul(beta, beta)
             Q_comb == QAdd(Q_run, Q_branch)
         IN  IF Q_comb.n = 0 THEN FRaise("ZeroDivisionError", "division by zero")
             ELSE LET Q_ratio == QDiv(Q_branch, Q_comb)
                      C == IF QLe(beta2, FNum(35, 100)) THEN FInt(1)
                           ELSE IF QLe(Q_ratio, FNum(4, 10))
                           THEN QMul(FNum(9, 10), QSub(FInt(1), Q_ratio))
                           ELSE FNum(55, 100)
                  IN  IF beta2.n = 0
                      THEN FRaise("ZeroDivisionError", "division by zero")
                      ELSE FReturn(QMul(C,
                             QSub(QSub(QAdd(FInt(1), FSquare(QDiv(Q_ratio, beta2))),
                                       QMul(FInt(2), FSquare(QSub(FInt(1), Q_ratio)))),
                                  QMul(QDiv(F, beta2), FSquare(Q_ratio)))))

\* lines 2974-2987
K_branch_converging_Crane(D_run, D_branch, Q_run, Q_branch, angle) ==
    BranchConverging(D_run, D_branch, Q_run, Q_branch,
                     Interp(angle, branch_converging_Crane_angles,
                            branch_converging_Crane_Fs))

RunDiameterArgs == {FInt(0), FInt(1), FInt(2)}
BranchDiameterArgs == {FInt(0), FInt(1)}
FlowArgs == {FInt(0), FInt(1), FInt(3)}
BranchAngleArgs ==
    {FInt(0), FInt(15), FInt(30), FInt(40), FInt(45), FInt(50), FInt(60),
     FInt(75), FInt(90), FInt(120)}

CallK_branch_converging_Crane(D_run, D_branch, Q_run, Q_branch, angle) ==
    /\ fit.pc = "idle"
    /\ ValveCall("K_branch_converging_Crane",
                 [D_run |-> D_run, D_branch |-> D_branch, Q_run |-> Q_run,
                  Q_branch |-> Q_branch, angle |-> angle],
                 K_branch_converging_Crane(D_run, D_branch, Q_run, Q_branch, angle))

(***************************************************************************)
(* Minimum lift velocity of check valves (lines 2769-2883).  The velocity  *)
(* N*beta2*sqrt(1/rho) is irrational: it is the number of the formula with *)
(* the values it is computed from.                                         *)
(***************************************************************************)
\* lines 2858-2883: the multiplier N of a style and whether beta2 is read
LiftNs ==
    "swing check angled" :> <<45, FALSE>>
    @@ "swing check straight" :> <<75, FALSE>>
    @@ "swing check UL" :> <<120, FALSE>>
    @@ "lift check straight" :> <<50, TRUE>>
    @@ "lift check angled" :> <<170, TRUE>>
    @@ "tilting check 5°" :> <<100, FALSE>>
    @@ "tilting check 15°" :> <<40, FALSE>>
    @@ "stop check globe 1" :> <<70, TRUE>>
    @@ "stop check angle 1" :> <<95, TRUE>>
    @@ "stop check globe 2" :> <<75, TRUE>>
    @@ "stop check angle 2" :> <<75, TRUE>>
    @@ "stop check globe 3" :> <<170, TRUE>>
    @@ "stop check angle 3" :> <<170, TRUE>>
    @@ "foot valve poppet disc" :> <<20, FALSE>>
    @@ "foot valve hinged disc" :> <<45, FALSE>>

\* lines 2858-2883 for a style of the chain; specific_volume**0.5 of a
\* negative number is complex in Python 3 and a ValueError in Python 2
LiftVelocity(rho, D1, D2, name) ==
    IF LiftNs[name][2] /\ (D1.t = "None" \/ D2.t = "None")
    THEN FRaise("UnboundLocalError",
                "local variable 'beta2' referenced before assignment")
    ELSE IF rho.n < 0 /\ ~py3
    THEN FRaise("ValueError", "negative number cannot be raised to a fractional power")
    ELSE FReturn([t |-> "v", N |-> LiftNs[name][1],
                  beta2 |-> IF LiftNs[name][2] THEN FSquare(QDiv(D1, D2)) ELSE FNone,
                  rho |-> rho])

\* lines 2854-2857: 1./rho, and beta when both diameters are given
LiftDivides(rho, D1, D2) ==
    rho.n = 0 \/ (D1.t # "None" /\ D2.t # "None" /\ D2.n = 0)

\* a style outside the chain is refused
v_lift_valve_CraneChecked(rho, D1, D2, style) ==
    IF LiftDivides(rho, D1, D2) THEN FRaise("ZeroDivisionError", "float division by zero")
    ELSE IF style.t # "str" \/ style.s \notin DOMAIN LiftNs
    THEN FRaise("KeyError", "Accepted valve styles are the names of the table only")
    ELSE LiftVelocity(rho, D1, D2, style.s)

\* lines 2854-2883: the chain has no else, a style outside it returns None
v_lift_valve_Crane(rho, D1, D2, style) ==
    IF LiftDivides(rho, D1, D2) THEN FRaise("ZeroDivisionError", "float division by zero")
    ELSE IF style.t # "str" \/ style.s \notin DOMAIN LiftNs
    THEN FReturn(FNone)
    ELSE LiftVelocity(rho, D1, D2, style.s)

RhoArgs == {FInt(-1), FInt(0), FInt(1000)}
LiftD1Args == {FNone, FInt(1)}
LiftD2Args == {FNone, FInt(0), FInt(2)}
LiftStyleArgs ==
    {FStr(name) : name \in DOMAIN LiftNs}
    \cup {FStr(""), FStr("swing check"), FStr("Swing check angled"), FInt(0)}

Callv_lift_valve_Crane(rho, D1, D2, style) ==
    /\ fit.pc = "idle"
    /\ ValveCall("v_lift_valve_Crane",
                 [rho |-> rho, D1 |-> D1, D2 |-> D2, style |-> style],
                 v_lift_valve_Crane(rho, D1, D2, style))

(***************************************************************************)
(* Miller's bend model (lines 417-772).  The spline surfaces and the miter *)
(* polynomial are tabulated at the arguments of the calls, to three        *)
(* places; the roughness correction and the tier splines of the unimpeded  *)
(* length are the numbers of their formulas with their arguments.          *)
(***************************************************************************)
\* not a number: every comparison with it is false
FNaN == [t |-> "nan", n |-> 0, s |-> "", d |-> 1]
FLt(a, b) == a.t = "num" /\ b.t = "num" /\ QLt(a, b)
FLe(a, b) == a.t = "num" /\ b.t = "num" /\ QLe(a, b)

\* bisplev(rc_D, angle, tck_bend_rounded_Miller), lines 417-464
MillerKbGrid ==
    <<FNum(1, 2), FInt(10)>> :> FNum(28, 1000)
    @@ <<FNum(1, 2), FInt(55)>> :> FNum(407, 1000)
    @@ <<FNum(1, 2), FInt(90)>> :> FNum(1027, 1000)
    @@ <<FNum(3, 4), FInt(10)>> :> FNum(18, 1000)
    @@ <<FNum(3, 4), FInt(55)>> :> FNum(194, 1000)
    @@ <<FNum(3, 4), FInt(90)>> :> FNum(387, 1000)
    @@ <<FNum(3, 2), FInt(10)>> :> FNum(18, 1000)
    @@ <<FNum(3, 2), FInt(55)>> :> FNum(109, 1000)
    @@ <<FNum(3, 2), FInt(90)>> :> FNum(184, 1000)
    @@ <<FInt(2), FInt(10)>> :> FNum(20, 1000)
    @@ <<FInt(2), FInt(55)>> :> FNum(103, 1000)
    @@ <<FInt(2), FInt(90)>> :> FNum(160, 1000)
    @@ <<FInt(5), FInt(10)>> :> FNum(38, 1000)
    @@ <<FInt(5), FInt(55)>> :> FNum(125, 1000)
    @@ <<FInt(5), FInt(90)>> :> FNum(183, 1000)
    @@ <<FInt(6), FInt(10)>> :> FNum(40, 1000)
    @@ <<FInt(6), FInt(55)>> :> FNum(134, 1000)
    @@ <<FInt(6), FInt(90)>> :> FNum(198, 1000)
    @@ <<FInt(10), FInt(10)>> :> FNum(46, 1000)
    @@ <<FInt(10), FInt(55)>> :> FNum(169, 1000)
    @@ <<FInt(10), FInt(90)>> :> FNum(237, 1000)
bend_rounded_Miller_Kb(rc_D, angle) == MillerKbGrid[<<rc_D, angle>>]

\* bisplev(log10(Re), rc_D, tck_bend_rounded_Miller_C_Re), lines 466-474
MillerC_ReGrid ==
    <<FInt(10000), FInt(1)>> :> FNum(2177, 1000) @@ <<FInt(10000), FNum(3, 2)>> :> FNum(2184, 1000) @@ <<FInt(10000), FInt(2)>> :> FNum(2178, 1000)
    @@ <<FInt(100000), FInt(1)>> :> FNum(1244, 1000) @@ <<FInt(100000), FNum(3, 2)>> :> FNum(1405, 1000) @@ <<FInt(100000), FInt(2)>> :> FNum(1477, 1000)
    @@ <<FInt(2000000), FInt(1)>> :> FNum(212, 1000) @@ <<FInt(2000000), FNum(3, 2)>> :> FNum(606, 1000) @@ <<FInt(2000000), FInt(2)>> :> FNum(899, 1000)
    @@ <<FInt(100000000), FInt(1)>> :> FNum(-2166, 1000) @@ <<FInt(100000000), FNum(3, 2)>> :> FNum(-1679, 1000) @@ <<FInt(100000000), FInt(2)>> :> FNum(420, 1000)
bend_rounded_Miller_C_Re(Re, rc_D) == MillerC_ReGrid[<<Re, rc_D>>]

\* horner(bend_rounded_Miller_C_Re_limit_1, 1.5), line 475
MillerC_ReLimit(rc_D) == FInt(506287)

\* horner(bend_miter_Miller_coeffs, (angle - 60)/60), lines 705-709 and 763
MiterKbGrid ==
    0 :> FNum(20, 1000) @@ 20 :> FNum(56, 1000) @@ 45 :> FNum(285, 1000) @@ 90 :> FNum(1125, 1000) @@ 120 :> FNum(1503, 1000)

\* the tiers with the last one ending below 1
bend_rounded_Miller_C_o_KbsShort ==
    <<FNum(1, 10), FNum(15, 100), FNum(2, 10), FNum(25, 100), FNum(9, 10)>>

\* lines 518-519
bend_rounded_Miller_C_o_Kbs ==
    <<FNum(1, 10), FNum(15, 100), FNum(2, 10), FNum(25, 100), FInt(1)>>
bend_rounded_Miller_C_o_limits ==
    <<FNum(30261, 1000), FNum(26281, 1000), FNum(22106, 1000), FNum(16770, 1000),
      FNum(13268, 1000)>>

\* lines 523-534: fd_rough/fd_smoth of friction_factor
Miller_bend_roughness_correction(Re, Di, roughness) ==
    [t |-> "C_roughness",
     Re |-> IF QLt(Re, FInt(1000000)) THEN Re ELSE FInt(1000000),
     eD |-> QDiv(roughness, Di)]

\* lines 558-563 and 564-569: the correction of tier i (from 0) at the ratio
TierC_o(ratio, i) ==
    IF QLe(bend_rounded_Miller_C_o_limits[i + 1], ratio) THEN FInt(1)
    ELSE IF QLe(ratio, FNum(1, 100))
    THEN [t |-> "bend_rounded_Miller_C_o_limit_0_01", i |-> i]
    ELSE [t |-> "splev", x |-> ratio, i |-> i]

\* lines 555-572, from tier i (from 0) on; a loop that ends returns None
RECURSIVE UnimpededLoop(_, _, _)
UnimpededLoop(Kb_C_o, ratio, i) ==
    IF i >= Len(bend_rounded_Miller_C_o_Kbs) THEN FReturn(FNone)
    ELSE IF i + 2 > Len(bend_rounded_Miller_C_o_Kbs)
    THEN FRaise("IndexError", "list index out of range")
    ELSE LET Kb_low == bend_rounded_Miller_C_o_Kbs[i + 1]
             Kb_high == bend_rounded_Miller_C_o_Kbs[i + 2]
         IN  IF FLe(Kb_low, Kb_C_o) /\ FLe(Kb_C_o, Kb_high)
             THEN FReturn([t |-> "C_o", i |-> i,
                           Co_low |-> TierC_o(ratio, i),
                           Co_high |-> TierC_o(ratio, i + 1),
                           weight |-> QDiv(QSub(Kb_C_o, Kb_low), QSub(Kb_high, Kb_low))])
             ELSE UnimpededLoop(Kb_C_o, ratio, i + 1)

\* lines 547-572
Miller_bend_unimpeded_correction(Kb, Di, L_unimpeded) ==
    LET Kb_C_o == IF FLt(Kb, FNum(1, 10)) THEN FNum(1, 10)
                  ELSE IF FLt(FInt(1), Kb) THEN FInt(1)
                  ELSE Kb
    IN  IF Di.n = 0 THEN FRaise("ZeroDivisionError", "division by zero")
        ELSE UnimpededLoop(Kb_C_o,
                           IF QLt(FInt(30), QDiv(L_unimpeded, Di)) THEN FInt(30)
                           ELSE QDiv(L_unimpeded, Di),
                           0)

\* a correction outside [0, 2.2] brought to the nearer end
LimitC_ReClamped(C_Re) ==
    IF C_Re.t = "num" /\ QLt(FNum(22, 10), C_Re) THEN FNum(22, 10)
    ELSE IF C_Re.t = "num" /\ QLt(C_Re, FInt(0)) THEN FInt(0)
    ELSE C_Re

\* lines 684-685 and 768-769
LimitC_Re(C_Re) ==
    IF C_Re.t = "num" /\ (QLt(FNum(22, 10), C_Re) \/ QLt(C_Re, FInt(0)))
    THEN FNum(22, 10)
    ELSE C_Re

\* lines 683-685 and 767-769: Kb/(Kb - 0.2*C_Re_1 + 0.2), limited.  A zero
\* divisor is infinite or not a number when a factor comes from a spline
\* (numpy), and a ZeroDivisionError between Python floats.
BlendC_Re(Kb, C_Re_1, numpy) ==
    LET divisor == QAdd(QSub(Kb, QMul(FNum(2, 10), C_Re_1)), FNum(2, 10))
    IN  IF divisor.n # 0 THEN FReturn(LimitC_Re(QDiv(Kb, divisor)))
        ELSE IF ~numpy THEN FRaise("ZeroDivisionError", "float division by zero")
        ELSE IF Kb.n = 0 THEN FReturn(FNaN)
        ELSE FReturn(FNum(22, 10))

\* min(max(Re, 1E4), 1E8), lines 671 and 765
ClipRe(Re) ==
    IF QLt(Re, FInt(10000)) THEN FInt(10000)
    ELSE IF QLt(FInt(100000000), Re) THEN FInt(100000000)
    ELSE Re

\* lines 679 and 766
C_Re_1Of(Re_C_Re) ==
    IF QLt(Re_C_Re, FInt(207957)) THEN bend_rounded_Miller_C_Re(Re_C_Re, FInt(1))
    ELSE FInt(1)

\* lines 671-698
RoundedC_Re(Kb, radius_ratio, Re_C_Re) ==
    IF QLe(FInt(2), radius_ratio)
    THEN IF Re_C_Re = FInt(100000000) THEN FReturn(FNum(420, 1000))
         ELSE IF Re_C_Re = FInt(10000) THEN FReturn(FNum(2178, 1000))
         ELSE FReturn(bend_rounded_Miller_C_Re(Re_C_Re, FInt(2)))
    ELSE IF QLe(radius_ratio, FInt(1))
    THEN IF QLt(FNum(7, 10), radius_ratio) \/ QLt(Kb, FNum(4, 10))
         THEN FReturn(C_Re_1Of(Re_C_Re))
         ELSE BlendC_Re(Kb, C_Re_1Of(Re_C_Re), TRUE)
    ELSE IF QLt(FInt(1048884), Re_C_Re) THEN FReturn(FInt(1))
         ELSE IF QLt(MillerC_ReLimit(radius_ratio), Re_C_Re) THEN FReturn(FInt(1))
         ELSE FReturn(bend_rounded_Miller_C_Re(Re_C_Re, radius_ratio))

\* Kb*C_Re*C_roughness*C_o, lines 702 and 771
MillerK(Kb, C_Re, C_roughness, C_o) ==
    IF C_Re.kind = "raise" THEN C_Re
    ELSE IF C_o.kind = "raise" THEN C_o
    ELSE FReturn([t |-> "product", Kb |-> Kb, C_Re |-> C_Re.value,
                  C_roughness |-> C_roughness, C_o |-> C_o.value])

\* lines 648-653: the radius ratio as given, `if not rc` taking 0 for None
RadiusRatio(Di, rc, bend_diameters) ==
    IF ~FTruthy(rc)
    THEN QDiv(QMul(Di, IF bend_diameters.t = "None" THEN FInt(5) ELSE bend_diameters), Di)
    ELSE QDiv(rc, Di)

\* lines 660-663
ClipRatio(radius_ratio) ==
    IF QLt(radius_ratio, FNum(1, 2)) THEN FNum(1, 2)
    ELSE IF QLt(FInt(10), radius_ratio) THEN FInt(10)
    ELSE radius_ratio

\* lines 664-665
FloorAngle(angle) == IF QLt(angle, FInt(10)) THEN FInt(10) ELSE angle

\* lines 648-702
bend_rounded_Miller(Di, angle, Re, rc, bend_diameters, roughness, L_unimpeded) ==
    IF Di.n = 0 THEN FRaise("ZeroDivisionError", "division by zero")
    ELSE LET radius_ratio == ClipRatio(RadiusRatio(Di, rc, bend_diameters))
             Kb == bend_rounded_Miller_Kb(radius_ratio, FloorAngle(angle))
         IN  MillerK(Kb,
                     RoundedC_Re(Kb, radius_ratio, ClipRe(Re)),
                     Miller_bend_roughness_correction(Re, Di, roughness),
                     Miller_bend_unimpeded_correction(
                         Kb, Di,
                         IF L_unimpeded.t = "None" THEN QMul(FInt(20), Di)
                         ELSE L_unimpeded))

\* lines 758-771
bend_miter_Miller(Di, angle, Re, roughness, L_unimpeded) ==
    IF Di.n = 0 THEN FRaise("ZeroDivisionError", "division by zero")
    ELSE LET Kb == MiterKbGrid[IF angle.n > 120 THEN 120 ELSE angle.n]
         IN  MillerK(Kb,
                     BlendC_Re(Kb, C_Re_1Of(ClipRe(Re)), QLt(ClipRe(Re), FInt(207957))),
                     Miller_bend_roughness_correction(Re, Di, roughness),
                     Miller_bend_unimpeded_correction(
                         Kb, Di,
                         IF L_unimpeded.t = "None" THEN QMul(FInt(20), Di)
                         ELSE L_unimpeded))

BendDiArgs == {FInt(0), FInt(1), FInt(2)}
BendAngleArgs == {FInt(5), FInt(10), FInt(55), FInt(90)}
MiterAngleArgs == {FInt(0), FInt(20), FInt(45), FInt(90), FInt(150)}
BendReArgs ==
    {FInt(1000), FInt(10000), FInt(100000), FInt(2000000), FInt(1000000000)}
RcArgs ==
    {FNone, FInt(0), FNum(3, 10), FNum(1, 2), FNum(3, 2), FInt(10), FInt(12)}
BendDiametersArgs == {FNone, FInt(2)}
UnimpededArgs == {FNone, FInt(40)}
UnimpededDiArgs == {FInt(0), FInt(1)}
KbArgs ==
    {FNaN, FInt(-1), FInt(0), FNum(5, 100), FNum(1, 10), FNum(12, 100), FNum(15, 100),
     FNum(2, 10), FNum(22, 100), FNum(25, 100), FNum(1, 2), FInt(1), FInt(2)}
LengthRatioArgs ==
    {FInt(-1), FInt(0), FNum(1, 100), FInt(1), FInt(15), FInt(20), FInt(25), FInt(28),
     FInt(31), FInt(40)}

Callbend_rounded_Miller(Di, angle, Re, rc, bend_diameters, L_unimpeded) ==
    /\ fit.pc = "idle"
    /\ ValveCall("bend_rounded_Miller",
                 [Di |-> Di, angle |-> angle, Re |-> Re, rc |-> rc,
                  bend_diameters |-> bend_diameters, roughness |-> FInt(0),
                  L_unimpeded |-> L_unimpeded],
                 bend_rounded_Miller(Di, angle, Re, rc, bend_diameters, FInt(0),
                                     L_unimpeded))

Callbend_miter_Miller(Di, angle, Re, L_unimpeded) ==
    /\ fit.pc = "idle"
    /\ ValveCall("bend_miter_Miller",
                 [Di |-> Di, angle |-> angle, Re |-> Re, roughness |-> FInt(0),
                  L_unimpeded |-> L_unimpeded],
                 bend_miter_Miller(Di, angle, Re, FInt(0), L_unimpeded))

CallMiller_bend_unimpeded_correction(Kb, Di, L_unimpeded) ==
    /\ fit.pc = "idle"
    /\ ValveCall("Miller_bend_unimpeded_correction",
                 [Kb |-> Kb, Di |-> Di, L_unimpeded |-> L_unimpeded],
                 Miller_bend_unimpeded_correction(Kb, Di, L_unimpeded))

InitFit ==
    /\ Loaded(RowEnds(1, 1, 0, <<>>))
    /\ py3 \in BOOLEAN
    /\ frames = <<IdleFrame>>
    /\ parse = NoParse
    /\ fetch = NoFetch
    /\ fit = NoFit

NextFit ==
    \/ \E NPS \in NPSArgs, Re \in ReArgs, c \in DarbyCalls :
            CallDarby3K(NPS, Re, c[1], c[2][1], c[2][2], c[2][3])
    \/ \E Di \in DiArgs, Re \in ReArgs, c \in HooperCalls :
            CallHooper2K(Di, Re, c[1], c[2][1], c[2][2])
    \/ \E D1 \in D1Args, D2 \in D2Args, fd \in FdArgs :
          \/ \E angle \in ValveAngleArgs :
                \/ CallK_gate_valve_Crane(D1, D2, angle, fd)
                \/ CallK_ball_valve_Crane(D1, D2, angle, fd)
                \/ \E style \in StyleArgs :
                      CallK_plug_valve_Crane(D1, D2, angle, fd, style)
          \/ CallK_globe_valve_Crane(D1, D2, fd)
          \/ \E angled \in BOOLEAN : CallK_lift_check_valve_Crane(D1, D2, fd, angled)
          \/ \E style \in StyleArgs :
                \/ CallK_angle_valve_Crane(D1, D2, fd, style)
                \/ CallK_globe_stop_check_valve_Crane(D1, D2, fd, style)
                \/ CallK_angle_stop_check_valve_Crane(D1, D2, fd, style)
    \/ \E fd \in FdArgs, style \in StyleArgs :
          \/ CallK_diaphragm_valve_Crane(fd, style)
          \/ CallK_foot_valve_Crane(fd, style)
          \/ \E D \in BoreArgs : CallK_butterfly_valve_Crane(D, fd, style)
    \/ \E Di1 \in DiffuserDi1Args, Di2 \in DiffuserDi2Args, l \in LengthArgs,
          angle \in DiffuserAngleArgs, fd \in DiffuserFdArgs :
            Calldiffuser_conical(Di1, Di2, l, angle, fd)
    \/ \E Di1 \in StagedDi1Args, Di2 \in StagedDi2Args, DEs \in StagedDEs,
          ls \in StagedLengths, fd \in DiffuserFdArgs :
            Calldiffuser_conical_staged(Di1, Di2, DEs, ls, fd)
    \/ Recalldiffuser_conical_staged
    \/ \E D_run \in RunDiameterArgs, D_branch \in BranchDiameterArgs,
          Q_run \in FlowArgs, Q_branch \in FlowArgs, angle \in BranchAngleArgs :
            CallK_branch_converging_Crane(D_run, D_branch, Q_run, Q_branch, angle)
    \/ \E rho \in RhoArgs, D1 \in LiftD1Args, D2 \in LiftD2Args, style \in LiftStyleArgs :
            Callv_lift_valve_Crane(rho, D1, D2, style)
    \/ \E Di \in BendDiArgs, Re \in BendReArgs, L_unimpeded \in UnimpededArgs :
          \/ \E angle \in BendAngleArgs, rc \in RcArgs, bend_diameters \in BendDiametersArgs :
                Callbend_rounded_Miller(Di, angle, Re, rc, bend_diameters, L_unimpeded)
          \/ \E angle \in MiterAngleArgs : Callbend_miter_Miller(Di, angle, Re, L_unimpeded)
    \/ \E Kb \in KbArgs, Di \in UnimpededDiArgs, L_unimpeded \in LengthRatioArgs :
            CallMiller_bend_unimpeded_correction(Kb, Di, L_unimpeded)
    \/ FitCollect

SpecFit == InitFit /\ [][NextFit]_vars

(***************************************************************************)
(* Properties.                                                             *)
(***************************************************************************)
Finished(f) == f.pc \in {"returned", "raised"}

\* station i has an END that is a number greater than the bound
Recent(i, bound) ==
    stations[i].END.t = "float" /\ stations[i].END.n > 10 * bound

\* C1: whenever some station of the registry has END > minumum_recent_data,
\* a call with match_max >= 1 returns a station with END >
\* minumum_recent_data that no other such station is nearer than.
C1_NearestRecent ==
    \A c \in DOMAIN frames :
        LET f == frames[c]
        IN  (Finished(f) /\ \E i \in 1..station_count : Recent(i, f.minumum_recent_data))
            => /\ f.pc = "returned"
               /\ Recent(f.result, f.minumum_recent_data)
               /\ \A j \in 1..station_count :
                     Recent(j, f.minumum_recent_data)
                     => Dist2(f.result, f.latitude, f.longitude)
                            <= Dist2(j, f.latitude, f.longitude)

\* C2: a call with match_max >= 1 ends with the not-found error exactly when
\* no station has END > minumum_recent_data, and only in a call whose
\* match_max has reached station_count.
C2_NotFoundIff ==
    \A c \in DOMAIN frames :
        LET f == frames[c]
        IN  Finished(f)
            => /\ (f.error = "NotFound"
                   <=> ~ \E i \in 1..station_count : Recent(i, f.minumum_recent_data))
               /\ (f.error = "NotFound" => f.match_max >= station_count)

\* the least number of tenfold widenings that take match_max to count
RECURSIVE RetryBound(_, _)
RetryBound(match_max, count) ==
    IF match_max >= count THEN 0 ELSE 1 + RetryBound(10 * match_max, count)

RECURSIVE TimesTen(_, _)
TimesTen(x, k) == IF k = 0 THEN x ELSE TimesTen(10 * x, k - 1)

\* the retries so far are within the bound and each multiplied match_max by 10
C3_Bounded ==
    \A c \in DOMAIN frames :
        LET f == frames[c]
        IN  f.pc # "idle"
            => /\ f.calls <= RetryBound(f.first_match_max, station_count)
               /\ f.match_max = TimesTen(f.first_match_max, f.calls)

\* a retry starts from a scan of the k = min(match_max, station_count)
\* nearest in which no station qualified, with match_max < station_count
C3_RetryStep ==
    \A c \in DOMAIN frames :
        LET f == frames[c]
        IN  (frames'[c].pc # "idle" /\ frames'[c].calls # f.calls)
            => /\ frames'[c].calls = f.calls + 1
               /\ frames'[c].match_max = 10 * f.match_max
               /\ f.match_max < station_count
               /\ Len(f.indexes) = Min(f.match_max, station_count)
               /\ \A i \in 1..Len(f.indexes) :
                     Greater(stations[f.indexes[i]].END, f.minumum_recent_data) = "False"

\* C3: the widening is bounded: every call returns or raises, each retry
\* uses ten times the previous match_max and happens only after a scan of
\* the min(match_max, station_count) nearest without a hit while match_max <
\* station_count, and there are at most ceil(log10(station_count/match_max))
\* retries.
C3_BoundedWidening ==
    /\ []C3_Bounded
    /\ [][C3_RetryStep]_vars
    /\ \A c \in {1} : (frames[c].pc = "query") ~> Finished(frames[c])

C3_Witness ==
    \E c \in DOMAIN frames :
        /\ frames[c].pc = "returned"
        /\ frames[c].calls = 2
        /\ frames[c].first_match_max = 2

\* C4: with minumum_recent_data = 0 a call on a non-empty registry returns a
\* station.
C4_ZeroBoundReturns ==
    \A c \in DOMAIN frames :
        (Finished(frames[c]) /\ frames[c].minumum_recent_data = 0)
        => frames[c].pc = "returned"

\* C5: every retained station has LAT and LON, the coordinate list has
\* the (LAT, LON) of station i in row i, and after the load station_count
\* is the number of stations and the index is built over these rows.
C5_RegistryAligned ==
    /\ Len(latlongs) = Len(stations)
    /\ Len(stations) <= nread
    /\ \A i \in 1..Len(stations) :
          /\ stations[i].LAT.t # "None"
          /\ stations[i].LON.t # "None"
          /\ IF loadpc = "loaded"
             THEN /\ stations[i].LAT.t = "float"
                  /\ stations[i].LON.t = "float"
                  /\ latlongs[i] = <<stations[i].LAT.n, stations[i].LON.n>>
             ELSE latlongs[i] = <<stations[i].LAT, stations[i].LON>>
    /\ loadpc = "loaded" => station_count = Len(stations) /\ kd_tree = latlongs

C5_Witness ==
    /\ loadpc = "loaded"
    /\ Len(stations) = 2
    /\ latlongs[1] # latlongs[2]

\* the eleven field texts of a dataset line, the line terminator left out
FieldTexts(text) == Split(SubSeq(text, 1, Len(text) - 1), TAB)

\* a float in tenths, truncated to an integer
Truncated(x) == IF x >= 0 THEN x \div 10 ELSE -((-x) \div 10)

\* C6: a field whose text reads as a number that truncates to 99999 is None
\* in the values of the line, and no station has a number that truncates to
\* 99999 in any field.
C6_SentinelAbsent ==
    /\ nread > 0 =>
          \A i \in 1..11 :
              (IsFloatText(FieldTexts(line)[i])
               /\ Truncated(FloatOf(FieldTexts(line)[i])) = 99999)
              => values[i] = None
    /\ \A k \in 1..Len(stations) :
          \A v \in {stations[k].USAF, stations[k].WBAN, stations[k].NAME,
                    stations[k].CTRY, stations[k].ST, stations[k].ICAO,
                    stations[k].LAT, stations[k].LON, stations[k].ELEV,
                    stations[k].BEGIN, stations[k].END} :
              ~(v.t = "float" /\ Truncated(v.n) = 99999)

\* C7: each of the eleven fields that is empty in the dataset line is None
\* in the values of the line, the eleventh included.
C7_EmptyAbsent ==
    nread > 0 =>
        \A i \in 1..11 : FieldTexts(line)[i] = <<>> => values[i] = None

\* C8: the registry stays as the load left it under any interleaving of
\* get_closest_station and gsod_day_parser calls, and every call ends with
\* an outcome it has when run alone.
C8_RegistryFrozen ==
    /\ [][registry' = registry]_vars
    /\ [](\A c \in DOMAIN frames :
            Finished(frames[c])
            => <<frames[c].result, frames[c].error>>
                  \in get_closest_station(frames[c].latitude, frames[c].longitude,
                                          frames[c].minumum_recent_data,
                                          frames[c].first_match_max))

C8_Witness ==
    /\ frames[1].pc = "returned"
    /\ frames[1].calls = 1
    /\ frames[2].pc = "raised"
    /\ frames[2].error = "NotFound"
    /\ parse.pc = "returned"

\* the token of a field in an observation line
TokenOf(text, name) == SplitWs(Strip(text))[FieldAt(name) + 2]

\* a token without its trailing flag characters
FlagFree(token) ==
    SubSeq(token, 1,
           CHOOSE m \in 0..Len(token) :
               /\ m = 0 \/ token[m] \notin gsod_flag_chars
               /\ \A i \in (m + 1)..Len(token) : token[i] \in gsod_flag_chars)

\* C9: in the record returned, with SI on or off, a measurement field is
\* absent when its token without trailing flag characters is "99.99",
\* "999.9" or "9999.9", and a number otherwise.
C9_MissingValues ==
    parse.pc = "returned" =>
        \A name \in Range(gsod_float_fields) :
            IF FlagFree(TokenOf(parse.line, name)) \in gsod_bad_values
            THEN parse.obj[name].t = "None"
            ELSE parse.obj[name].t = "float"

C9_Witness ==
    /\ parse.pc = "returned"
    /\ parse.SI
    /\ \E name \in {"TEMP", "VISIB"} :
          /\ TokenOf(parse.line, name) # FlagFree(TokenOf(parse.line, name))
          /\ parse.obj[name].t = "None"

\* C10: a line with the two identifiers and a DATE only is parsed into a
\* record that has this DATE.
C10_DateOnlyAccepted ==
    (parse.pc \in {"returned", "raised"} /\ Len(SplitWs(Strip(parse.line))) = 3)
    => /\ parse.pc = "returned"
       /\ parse.obj["DATE"].n = NatOf(SplitWs(Strip(parse.line))[3])

\* C11: a failure of the network fetch, while the remote path is opened or
\* while the payload is read, reaches the caller as the one generic
\* Exception whose message holds the guidance and the cause.
C11_FetchFailuresWrapped ==
    (fetch.pc = "raised" /\ fetch.stage \in {"open", "read"})
    => /\ fetch.error = "Exception"
       /\ Len(fetch.message) = 2
       /\ fetch.message[1] = FetchGuidance
       /\ fetch.message[2] \in OpenOutcomes \cup ReadOutcomes

\* text begins with prefix
StartsWith(text, prefix) ==
    Len(text) >= Len(prefix) /\ SubSeq(text, 1, Len(prefix)) = prefix

DoneWith(fn) == fit.pc = "done" /\ fit.fn = fn

\* C12: a Darby3K call with a name that is not in the table raises the
\* invalid-input Exception, and so does a call with no name and without all
\* of K1, Ki and Kd; no coefficient is returned.  The empty text is no name.
C12_DarbyInvalidInput ==
    DoneWith("Darby3K") =>
        LET a == fit.args
        IN  /\ (FTruthy(a.name) /\ a.name.s \notin DOMAIN Darby)
                => fit.out = FRaise("Exception", "Name of fitting not in list")
            /\ (~FTruthy(a.name) /\ FNone \in {a.K1, a.Ki, a.Kd})
                => fit.out = FRaise("Exception",
                                    "Name of fitting or constants are required")

C12_Witness ==
    /\ DoneWith("Darby3K")
    /\ fit.args.name = FStr("Valve, Gate")
    /\ fit.args.Kd # FNone
    /\ fit.out.kind = "raise"

\* C13: for every entry of the table, a call without a name that passes the
\* entry's K1, Ki and Kd returns what the call with the entry's name returns.
C13_DarbyNameOrConstants ==
    DoneWith("Darby3K") =>
        LET a == fit.args
        IN  \A name \in DOMAIN Darby :
                (a.name = FNone
                 /\ <<a.K1, a.Ki, a.Kd>>
                        = <<Darby[name].K1, Darby[name].Ki, Darby[name].Kd>>)
                => /\ fit.out.kind = "return"
                   /\ fit.out = Darby3K(a.NPS, a.Re, FStr(name), FNone, FNone, FNone)

\* the names of a table that begin with "Valve,"
Valves(table) == {name \in DOMAIN table : StartsWith(name, "Valve,")}

\* every entry of the table has a number under each of the keys
Holds(table, keys) ==
    \A name \in DOMAIN table :
        DOMAIN table[name] = keys /\ \A k \in keys : table[name][k].t = "num"

\* C14, as the table is: the table Darby3K looks names up in has 34
\* fittings, 11 of them valves, each with one K1, Ki, Kd.
C14_DarbyTable ==
    DoneWith("Darby3K") =>
        /\ Cardinality(DOMAIN Darby) = 34
        /\ Cardinality(Valves(Darby)) = 11
        /\ Holds(Darby, {"K1", "Ki", "Kd"})

\* C14, as stated: the table has 33 fittings, 11 of them valves, each with
\* one K1, Ki, Kd.
C14_DarbyThirtyThree ==
    DoneWith("Darby3K") =>
        /\ Cardinality(DOMAIN Darby) = 33
        /\ Cardinality(Valves(Darby)) = 11
        /\ Holds(Darby, {"K1", "Ki", "Kd"})

C14_Witness ==
    /\ DoneWith("Darby3K")
    /\ fit.args.name.s \in Valves(Darby)
    /\ fit.out.kind = "return"

\* C15, as the table is: the table Hooper2K looks names up in has 32
\* fittings, 10 of them valves, each with one K1, Kinfty.
C15_HooperTable ==
    DoneWith("Hooper2K") =>
        /\ Cardinality(DOMAIN Hooper) = 32
        /\ Cardinality(Valves(Hooper)) = 10
        /\ Holds(Hooper, {"K1", "Kinfty"})

\* C15, as stated: the table has 31 fittings, 10 of them valves, each with
\* one K1, Kinfty.
C15_HooperThirtyOne ==
    DoneWith("Hooper2K") =>
        /\ Cardinality(DOMAIN Hooper) = 31
        /\ Cardinality(Valves(Hooper)) = 10
        /\ Holds(Hooper, {"K1", "Kinfty"})

C15_Witness ==
    /\ DoneWith("Hooper2K")
    /\ fit.args.name.s \in Valves(Hooper)
    /\ fit.out.kind = "return"

\* the size tier of a bore: 1 up to 0.2286 m, 2 up to 0.381 m, 3 above
Tier(D) ==
    IF QLe(D, FNum(2286, 10000)) THEN 1 ELSE IF QLe(D, FNum(381, 1000)) THEN 2 ELSE 3

\* C16, as the code is: K_butterfly_valve_Crane returns N*fd with N by tier
\* and style 0 / 1 / 2: 45 / 74 / 218, then 35 / 52 / 96, then 25 / 43 / 55.
C16_ButterflyMultiplier ==
    (DoneWith("K_butterfly_valve_Crane") /\ fit.args.style \in {0, 1, 2})
    => LET N == <<<<45, 74, 218>>, <<35, 52, 96>>, <<25, 43, 55>>>>
       IN  fit.out = FReturn(QMul(FInt(N[Tier(fit.args.D)][fit.args.style + 1]),
                                  fit.args.fd))

\* C16, as stated: the second tier is 35 / 52 / 43.
C16_ButterflyAsStated ==
    (DoneWith("K_butterfly_valve_Crane") /\ fit.args.style \in {0, 1, 2})
    => LET N == <<<<45, 74, 218>>, <<35, 52, 43>>, <<25, 43, 55>>>>
       IN  fit.out = FReturn(QMul(FInt(N[Tier(fit.args.D)][fit.args.style + 1]),
                                  fit.args.fd))

C16_Witness ==
    /\ DoneWith("K_butterfly_valve_Crane")
    /\ fit.args.D = FNum(381, 1000)
    /\ fit.args.style = 2
    /\ fit.out.kind = "return"

\* the styles each style-keyed function supports
Styles ==
    [fn \in {"K_angle_valve_Crane", "K_globe_stop_check_valve_Crane",
             "K_angle_stop_check_valve_Crane", "K_plug_valve_Crane",
             "K_butterfly_valve_Crane"} |-> {0, 1, 2}]
    @@ [fn \in {"K_diaphragm_valve_Crane", "K_foot_valve_Crane"} |-> {0, 1}]

\* the call ended with the failure of an invalid input
InvalidInput(out) == out.kind = "raise" /\ out.exc \in {"Exception", "KeyError"}

\* the functions that divide D1 by D2 before they look at the style
DividesFirst == {"K_angle_valve_Crane", "K_plug_valve_Crane"}

\* C17, as the code is: a style-keyed valve function called with a style
\* outside its set fails with the invalid-input error, provided D2 is not
\* zero where the function divides by it before it looks at the style.
C17_UnsupportedStyle ==
    (fit.pc = "done" /\ fit.fn \in DOMAIN Styles
     /\ fit.args.style \notin Styles[fit.fn])
    => IF fit.fn \in DividesFirst /\ fit.args.D2.n = 0
       THEN fit.out.kind = "raise" /\ fit.out.exc = "ZeroDivisionError"
       ELSE InvalidInput(fit.out)

\* C17, as stated: whatever the other arguments are.
C17_UnsupportedStyleAnyArguments ==
    (fit.pc = "done" /\ fit.fn \in DOMAIN Styles
     /\ fit.args.style \notin Styles[fit.fn])
    => InvalidInput(fit.out)

C17_Witness ==
    /\ DoneWith("K_plug_valve_Crane")
    /\ fit.args.style = 3
    /\ fit.args.D2 = FInt(1)
    /\ fit.out.exc = "KeyError"

\* the multiplier N of each valve with the beta = 1 shortcut
Multiplier(fn, args) ==
    CASE fn = "K_gate_valve_Crane" -> 8
      [] fn = "K_ball_valve_Crane" -> 3
      [] fn = "K_globe_valve_Crane" -> 340
      [] fn = "K_angle_valve_Crane" -> <<55, 150, 55>>[args.style + 1]
      [] fn = "K_lift_check_valve_Crane" -> IF args.angled THEN 55 ELSE 600
      [] fn = "K_globe_stop_check_valve_Crane" -> <<400, 300, 55>>[args.style + 1]
      [] fn = "K_angle_stop_check_valve_Crane" -> <<200, 350, 55>>[args.style + 1]
      [] fn = "K_plug_valve_Crane" -> <<18, 30, 90>>[args.style + 1]

ShortcutValves ==
    {"K_gate_valve_Crane", "K_ball_valve_Crane", "K_globe_valve_Crane",
     "K_angle_valve_Crane", "K_lift_check_valve_Crane",
     "K_globe_stop_check_valve_Crane", "K_angle_stop_check_valve_Crane",
     "K_plug_valve_Crane"}

\* C18: with D1 = D2 each valve function with the beta = 1 shortcut returns
\* N*fd for its multiplier N, whatever the angle.
C18_FullBore ==
    (fit.pc = "done" /\ fit.fn \in ShortcutValves
     /\ fit.args.D1 = fit.args.D2
     /\ (fit.fn \in DOMAIN Styles => fit.args.style \in Styles[fit.fn]))
    => fit.out = FReturn(QMul(FInt(Multiplier(fit.fn, fit.args)), fit.args.fd))

C18_Witness ==
    /\ DoneWith("K_plug_valve_Crane")
    /\ fit.args.D1 = fit.args.D2
    /\ fit.args.angle = FInt(180)
    /\ fit.args.style = 2
    /\ fit.out.kind = "return"

\* the call says how wide the diffuser opens, by angle or by length
Measured(a) == a.angle.t # "None" \/ a.l.t # "None"

\* the angle of a call, as given or as it results from the length
ResultingAngle(a) ==
    IF a.angle.t # "None" THEN GivenAngle(a.angle)
    ELSE AngleOfLength(a.Di1, a.Di2, a.l)

\* the angle is in (0, 180] degrees
WithinHalfTurn(a) ==
    AngleAbove(ResultingAngle(a), 0) /\ AngleUpTo(ResultingAngle(a), 180)

\* the regime of an angle in (0, 180] and a ratio beta >= 0
RegimeOf(a) ==
    LET narrow == QLt(QDiv(a.Di1, a.Di2), FNum(1, 2))
    IN  IF AngleUpTo(ResultingAngle(a), 20) THEN 1
        ELSE IF AngleUpTo(ResultingAngle(a), 60)
        THEN (IF narrow THEN 2 ELSE 3)
        ELSE (IF narrow THEN 4 ELSE 5)

\* neither the given angle nor the given length is zero
NoZeroMeasure(a) ==
    IF a.angle.t # "None" THEN a.angle.n # 0 ELSE a.l.n # 0

\* C19, as the code is: with Di2 not zero and the given angle or length not
\* zero, an angle in (0, 180] with beta >= 0 selects the one regime of its
\* bounds (lower exclusive, upper inclusive) and the coefficient is returned,
\* except that the regimes up to 60 degrees fail with a type error when fd
\* is None; an angle outside (0, 180] fails with 'Conical diffuser inputs
\* incorrect', and a call with neither l nor angle fails with 'Either l or
\* angle must be specified'.
C19_DiffuserRegimes ==
    (DoneWith("diffuser_conical") /\ fit.args.Di2.n # 0)
    => /\ (Measured(fit.args) /\ NoZeroMeasure(fit.args) /\ WithinHalfTurn(fit.args)
           /\ QLe(FInt(0), QDiv(fit.args.Di1, fit.args.Di2)))
          => IF RegimeOf(fit.args) <= 3 /\ fit.args.fd.t = "None"
             THEN fit.out.kind = "raise" /\ fit.out.exc = "TypeError"
             ELSE fit.out.kind = "return"
                  /\ fit.out.value.regime = RegimeOf(fit.args)
       /\ (Measured(fit.args) /\ NoZeroMeasure(fit.args) /\ ~WithinHalfTurn(fit.args))
          => fit.out = FRaise("Exception", "Conical diffuser inputs incorrect")
       /\ ~Measured(fit.args)
          => fit.out = FRaise("Exception", "Either l or angle must be specified")

\* C19, as stated: an angle in (0, 180] with beta >= 0 returns a coefficient
\* of its regime; an angle outside, or neither l nor angle, is an invalid
\* input.
C19_DiffuserAsStated ==
    DoneWith("diffuser_conical")
    => /\ (Measured(fit.args) /\ fit.args.Di2.n # 0
           /\ (fit.args.angle.t = "None" => fit.args.l.n # 0)
           /\ WithinHalfTurn(fit.args)
           /\ QLe(FInt(0), QDiv(fit.args.Di1, fit.args.Di2)))
          => fit.out.kind = "return" /\ fit.out.value.regime = RegimeOf(fit.args)
       /\ (fit.args.angle.t # "None" /\ ~WithinHalfTurn(fit.args))
          => InvalidInput(fit.out)
       /\ ~Measured(fit.args) => InvalidInput(fit.out)

C19_Witness ==
    /\ DoneWith("diffuser_conical")
    /\ fit.args.angle = FInt(60)
    /\ fit.args.Di1 = FInt(1)
    /\ fit.args.Di2 = FInt(2)
    /\ fit.out.kind = "return"
    /\ fit.out.value.regime = 3

\* a + b of two calls: the first failure, or the sum of the two values
PyAdd(a, b) ==
    IF a.kind = "raise" THEN a
    ELSE IF b.kind = "raise" THEN b
    ELSE FReturn([t |-> "sum", left |-> a.value, right |-> b.value])

\* the losses by length of the first n consecutive pairs of D, added up
RECURSIVE SegmentSum(_, _, _, _)
SegmentSum(D, ls, fd, n) ==
    IF n = 1 THEN diffuser_conical(D[1], D[2], ls[1], FNone, fd)
    ELSE PyAdd(SegmentSum(D, ls, fd, n - 1),
               diffuser_conical(D[n], D[n + 1], ls[n], FNone, fd))

\* C20: with one length for each consecutive pair of [Di1] + DEs + [Di2],
\* diffuser_conical_staged returns the sum of the losses diffuser_conical
\* gives by length for the pairs; with one intermediate diameter DE and
\* lengths [l1, l2] that is diffuser_conical(Di1, DE, l=l1, fd) +
\* diffuser_conical(DE, Di2, l=l2, fd).
C20_StagedIsSum ==
    (DoneWith("diffuser_conical_staged")
     /\ Len(fit.args.ls) = Len(fit.args.DEs) + 1)
    => /\ fit.out = SegmentSum(<<fit.args.Di1>> \o fit.args.DEs \o <<fit.args.Di2>>,
                               fit.args.ls, fit.args.fd, Len(fit.args.ls))
       /\ Len(fit.args.DEs) = 1
          => fit.out = PyAdd(diffuser_conical(fit.args.Di1, fit.args.DEs[1],
                                              fit.args.ls[1], FNone, fit.args.fd),
                             diffuser_conical(fit.args.DEs[1], fit.args.Di2,
                                              fit.args.ls[2], FNone, fit.args.fd))

C20_Witness ==
    /\ DoneWith("diffuser_conical_staged")
    /\ fit.args.DEs = <<FInt(2)>>
    /\ fit.args.ls = <<FInt(1), FInt(4)>>
    /\ fit.out.kind = "return"
    /\ fit.out.value.t = "sum"
    /\ fit.out.value.left.regime = 3
    /\ fit.out.value.right.regime = 3

\* C21: when a call of diffuser_conical_staged has ended, by a return or by
\* the failure of a segment, the caller's DEs is what it was with Di1 put in
\* front and Di2 at the end, two longer, and ls and the other arguments are
\* what they were; a call of any other function leaves its arguments as
\* they were.
C21_StagedLengthensDEs ==
    fit.pc = "done"
    => IF fit.fn = "diffuser_conical_staged"
       THEN /\ fit.after.DEs = <<fit.args.Di1>> \o fit.args.DEs \o <<fit.args.Di2>>
            /\ Len(fit.after.DEs) = Len(fit.args.DEs) + 2
            /\ fit.after.ls = fit.args.ls
            /\ fit.after.Di1 = fit.args.Di1 /\ fit.after.Di2 = fit.args.Di2
            /\ fit.after.fd = fit.args.fd
       ELSE fit.after = fit.args

C21_Witness ==
    /\ DoneWith("diffuser_conical_staged")
    /\ fit.calls = 1
    /\ fit.args.DEs = <<FInt(2)>>
    /\ fit.args.ls = <<FInt(1), FInt(1)>>
    /\ fit.out.kind = "raise"
    /\ fit.after.DEs = <<FInt(1), FInt(2), FInt(4)>>

\* C28, as the code is: every call with the same list makes it two longer,
\* so after n calls it is 2n longer than at first; a call after the first,
\* given a length, fails in its first segment (Di1, Di1): with 'Conical
\* diffuser inputs incorrect' when Di1 is not zero, with a division error
\* when it is; that differs from the first result when the first call
\* returned.
C28_SameListAgain ==
    DoneWith("diffuser_conical_staged")
    => /\ Len(fit.after.DEs) = Len(fit.first.DEs) + 2 * fit.calls
       /\ (fit.calls >= 2 /\ Len(fit.args.ls) >= 1)
          => /\ IF fit.args.Di1.n = 0
                THEN fit.out.kind = "raise" /\ fit.out.exc = "ZeroDivisionError"
                ELSE fit.out = FRaise("Exception", "Conical diffuser inputs incorrect")
             /\ fit.first.out.kind = "return" => fit.out # fit.first.out

\* C28, as stated: the second call does not reproduce the first result, and
\* its first segment is rejected as an invalid input.
C28_SecondCallAsStated ==
    (DoneWith("diffuser_conical_staged") /\ fit.calls = 2 /\ Len(fit.args.ls) >= 1)
    => /\ fit.out # fit.first.out
       /\ Len(fit.after.DEs) = Len(fit.first.DEs) + 4
       /\ fit.out = FRaise("Exception", "Conical diffuser inputs incorrect")

C28_Witness ==
    /\ DoneWith("diffuser_conical_staged")
    /\ fit.calls = 2
    /\ fit.first.DEs = <<FInt(2)>>
    /\ fit.first.out.kind = "return"
    /\ fit.after.DEs = <<FInt(1), FInt(1), FInt(2), FInt(4), FInt(4)>>
    /\ fit.out.kind = "raise"

\* the call of K_branch_converging_Crane had a branch flow and no zero divisor
BranchFlows ==
    /\ DoneWith("K_branch_converging_Crane")
    /\ fit.args.D_run.n # 0 /\ fit.args.D_branch.n # 0 /\ fit.args.Q_branch.n # 0

UnknownLiftStyle ==
    /\ DoneWith("v_lift_valve_Crane")
    /\ (fit.args.style.t # "str" \/ fit.args.style.s \notin DOMAIN LiftNs)

\* C29, as the code is: with a style that is none of the fifteen names
\* v_lift_valve_Crane raises no invalid-input error and returns None,
\* provided rho is not zero and, when both diameters are given, D2 is not
\* zero; with such a zero the call fails with a division error.
C29_UnknownStyleReturnsNone ==
    UnknownLiftStyle
    => IF fit.args.rho.n = 0
          \/ (fit.args.D1.t # "None" /\ fit.args.D2.t # "None" /\ fit.args.D2.n = 0)
       THEN fit.out.kind = "raise" /\ fit.out.exc = "ZeroDivisionError"
       ELSE fit.out = FReturn(FNone)

\* C29, as stated: None for any rho, D1, D2.
C29_NoneForAnyArguments == UnknownLiftStyle => fit.out = FReturn(FNone)

C29_Witness ==
    /\ UnknownLiftStyle
    /\ fit.args.style = FStr("swing check")
    /\ fit.args.rho = FInt(1000)
    /\ fit.args.D1 = FInt(1)
    /\ fit.args.D2 = FInt(2)
    /\ fit.out = FReturn(FNone)

\* C24: K_gate_valve_Crane and K_ball_valve_Crane take the same branch for
\* the same (D1, D2, angle), and for beta < 1 both return
\* (N*fd + correction(beta, angle))/beta^4 with N = 8 and 3: the low-angle
\* correction up to 45 degrees, angle 0 included, the high-angle one above.
C24_GateAsBall ==
    (fit.pc = "done" /\ fit.fn \in {"K_gate_valve_Crane", "K_ball_valve_Crane"}
     /\ fit.args.D2.n # 0 /\ QLt(fit.args.D1, fit.args.D2))
    => LET N == IF fit.fn = "K_gate_valve_Crane" THEN 8 ELSE 3
           K1 == QMul(FInt(N), fit.args.fd)
           beta == QDiv(fit.args.D1, fit.args.D2)
       IN  fit.out = IF QLe(fit.args.angle, FInt(45))
                     THEN FReturn(LowAngleForm(K1, beta, fit.args.angle))
                     ELSE FReturn(HighAngleForm(K1, beta, fit.args.angle))


\* a completed call of one of Miller's bend functions with a nonzero diameter
BendDone(fn) == DoneWith(fn) /\ fit.args.Di.n # 0

\* C30: Miller_bend_unimpeded_correction returns from inside its tier loop
\* for every real Kb and every ratio L_unimpeded/Di: the tier found has
\* index at most 3, so neither the index past the end of the five-entry
\* tables nor the end of the loop is reached, and the interpolation weight
\* lies in [0, 1].
C30_UnimpededReturnsInLoop ==
    BendDone("Miller_bend_unimpeded_correction") /\ fit.args.Kb.t = "num" =>
        /\ fit.out.kind = "return"
        /\ fit.out.value.t = "C_o"
        /\ fit.out.value.i \in 0..3
        /\ QLe(FInt(0), fit.out.value.weight)
        /\ QLe(fit.out.value.weight, FInt(1))

C30_Witness ==
    /\ BendDone("Miller_bend_unimpeded_correction")
    /\ fit.args.Kb = FInt(2)
    /\ fit.args.L_unimpeded = FInt(15)
    /\ fit.out.kind = "return"
    /\ fit.out.value.i = 3
    /\ fit.out.value.weight = FInt(1)
    /\ fit.out.value.Co_low = [t |-> "splev", x |-> FInt(15), i |-> 3]
    /\ fit.out.value.Co_high = FInt(1)

\* the calls whose Reynolds correction is the blended one: every miter bend,
\* and the rounded bend of ratio at most 0.7 with Kb at least 0.4
Blended ==
    \/ BendDone("bend_miter_Miller")
    \/ /\ BendDone("bend_rounded_Miller")
       /\ QLe(ClipRatio(RadiusRatio(fit.args.Di, fit.args.rc, fit.args.bend_diameters)),
              FNum(7, 10))
       /\ QLe(FNum(4, 10), fit.out.value.Kb)

\* Kb - 0.2*C_Re_1 + 0.2 of the completed call
BlendDivisor ==
    QAdd(QSub(fit.out.value.Kb, QMul(FNum(2, 10), C_Re_1Of(ClipRe(fit.args.Re)))),
         FNum(2, 10))

\* Kb/(Kb - 0.2*C_Re_1 + 0.2) of the completed call, before any limit
BlendComputed == QDiv(fit.out.value.Kb, BlendDivisor)

\* C25: the blended Reynolds correction Kb/(Kb - 0.2*C_Re_1 + 0.2) of
\* bend_miter_Miller, and of bend_rounded_Miller with ratio at most 0.7 and
\* Kb at least 0.4, is used as computed when it lies in [0, 2.2] and is
\* replaced by 2.2 both when it is above 2.2 and when it is below 0.
C25_BlendOutsideRangeIsUpperLimit ==
    Blended /\ BlendDivisor.n # 0 =>
        /\ fit.out.kind = "return"
        /\ fit.out.value.C_Re =
               IF QLe(FInt(0), BlendComputed) /\ QLe(BlendComputed, FNum(22, 10))
               THEN BlendComputed
               ELSE FNum(22, 10)

\* C25 as stated: a blended correction below 0 is replaced by 0
C25_BlendClampedAsStated ==
    Blended /\ BlendDivisor.n # 0 =>
        /\ fit.out.kind = "return"
        /\ fit.out.value.C_Re =
               IF QLt(BlendComputed, FInt(0)) THEN FInt(0)
               ELSE IF QLt(FNum(22, 10), BlendComputed) THEN FNum(22, 10)
               ELSE BlendComputed

C25_Witness ==
    /\ BendDone("bend_miter_Miller")
    /\ fit.args.angle = FInt(20)
    /\ fit.args.Re = FInt(10000)
    /\ QLt(BlendComputed, FInt(0))
    /\ fit.out.kind = "return"
    /\ fit.out.value.C_Re = FNum(22, 10)

\* the radius ratio rc/Di of a call with radius rc
GivenRatio(rc) == QDiv(rc, fit.args.Di)

\* both ratios at or below 0.5, or both at or above 10
BeyondSameClip(rc1, rc2) ==
    \/ QLe(GivenRatio(rc1), FNum(1, 2)) /\ QLe(GivenRatio(rc2), FNum(1, 2))
    \/ QLe(FInt(10), GivenRatio(rc1)) /\ QLe(FInt(10), GivenRatio(rc2))

\* C23: bend_rounded_Miller depends on rc only through rc/Di clipped to
\* [0.5, 10]: a call with another rc whose ratio lies beyond the same clip
\* boundary returns the identical result.
C23_RadiusOnlyThroughClippedRatio ==
    BendDone("bend_rounded_Miller") /\ fit.args.rc.t = "num" =>
        \A rc \in {r \in RcArgs : r.t = "num"} :
            BeyondSameClip(fit.args.rc, rc) =>
                fit.out = bend_rounded_Miller(
                              fit.args.Di, fit.args.angle, fit.args.Re, rc,
                              fit.args.bend_diameters, fit.args.roughness,
                              fit.args.L_unimpeded)


\* C26: a call of get_closest_station with match_max = 0 on a non-empty
\* registry never completes normally: it examines no candidate, every retry
\* passes match_max = 0 again, and neither the return of a station nor the
\* not-found error is reached.
C26_ZeroBreadthNeverCompletes ==
    \A c \in DOMAIN frames :
        LET f == frames[c]
        IN  (f.pc # "idle" /\ f.first_match_max = 0 /\ station_count > 0)
            => /\ f.pc # "returned"
               /\ f.error \notin {"NotFound", "TypeError"}
               /\ f.match_max = 0
               /\ f.indexes = <<>>
               /\ f.result = 0

C26_Witness ==
    \E c \in DOMAIN frames :
        /\ frames[c].pc = "query"
        /\ frames[c].first_match_max = 0
        /\ frames[c].calls = 2
        /\ frames[c].match_max = 0
        /\ station_count > 0


\* a coordinate that parsed to exactly 0
ZeroCoordinate(v) == v.t = "float" /\ v.n = 0

\* a coordinate that is there and is not the number 0
NonZeroCoordinate(v) == v.t # "None" /\ ~ZeroCoordinate(v)

\* the reading of one line (lines 146-163)
C27_LineRead ==
    (loadpc = "reading" /\ nread' = nread + 1) =>
        /\ (ZeroCoordinate(values'[7]) \/ ZeroCoordinate(values'[8]))
           => stations' = stations /\ latlongs' = latlongs
        /\ (NonZeroCoordinate(values'[7]) /\ NonZeroCoordinate(values'[8]))
           => /\ stations' = Append(stations, IntegratedSurfaceDatabaseStation(values'))
              /\ latlongs' = Append(latlongs, <<values'[7], values'[8]>>)

\* C27: the loader tests the coordinates by truthiness: a line whose
\* latitude or longitude parses to exactly 0 adds nothing to the station
\* list or to the coordinate list, and every line whose latitude and
\* longitude are both present and non-zero adds its station and its pair.
C27_ZeroCoordinateDropped == [][C27_LineRead]_vars

C27_Witness ==
    /\ loadpc = "reading"
    /\ nread = 2
    /\ ZeroCoordinate(values[7])
    /\ NonZeroCoordinate(values[8])
    /\ Len(stations) = 1
    /\ Len(latlongs) = 1

=============================================================================
